---- MODULE Spec2Model ----
(***************************************************************************)
(* Model of the lead qualification pipeline of leadgen-ai.                 *)
(*                                                                         *)
(* The core is LeadScorer.score (audit/lead_scorer.py), a function from an *)
(* audit dict to a scoring dict.  Its arithmetic is Python float           *)
(* arithmetic (IEEE-754 binary64, round to nearest, ties to even), which   *)
(* is modelled bit-exactly below on fixed-point big naturals.              *)
(***************************************************************************)
EXTENDS Integers, Sequences, FiniteSets, TLC

(***************************************************************************)
(* Big naturals: little-endian sequences of 15-bit limbs without leading   *)
(* zero limbs (<<>> is 0).  A limb product stays below 2^30.               *)
(***************************************************************************)
Base == 2^15

Pow2(k) == 2^k

Limb(a, i) == IF i <= Len(a) THEN a[i] ELSE 0

RECURSIVE Norm(_)
Norm(a) ==
  IF a = <<>> THEN a
  ELSE IF a[Len(a)] = 0 THEN Norm(SubSeq(a, 1, Len(a) - 1)) ELSE a

RECURSIVE AddFrom(_, _, _, _)
AddFrom(a, b, i, c) ==
  IF i > Len(a) /\ i > Len(b) THEN (IF c = 0 THEN <<>> ELSE <<c>>)
  ELSE LET s == Limb(a, i) + Limb(b, i) + c
       IN  <<s % Base>> \o AddFrom(a, b, i + 1, s \div Base)

BigAdd(a, b) == AddFrom(a, b, 1, 0)

RECURSIVE SubFrom(_, _, _, _)
SubFrom(a, b, i, borrow) ==
  IF i > Len(a) THEN <<>>
  ELSE LET d == a[i] - Limb(b, i) - borrow
       IN  IF d < 0 THEN <<d + Base>> \o SubFrom(a, b, i + 1, 1)
           ELSE <<d>> \o SubFrom(a, b, i + 1, 0)

\* a - b for a >= b
BigSub(a, b) == Norm(SubFrom(a, b, 1, 0))

RECURSIVE CmpFrom(_, _, _)
CmpFrom(a, b, i) ==
  IF i = 0 THEN 0
  ELSE IF a[i] > b[i] THEN 1
  ELSE IF a[i] < b[i] THEN -1
  ELSE CmpFrom(a, b, i - 1)

\* -1, 0, 1 as a < b, a = b, a > b
BigCmp(a, b) ==
  IF Len(a) > Len(b) THEN 1
  ELSE IF Len(a) < Len(b) THEN -1
  ELSE CmpFrom(a, b, Len(a))

RECURSIVE MulFrom(_, _, _, _)
MulFrom(a, s, i, c) ==
  IF i > Len(a) THEN (IF c = 0 THEN <<>> ELSE <<c>>)
  ELSE LET p == a[i] * s + c
       IN  <<p % Base>> \o MulFrom(a, s, i + 1, p \div Base)

\* a * s for 0 <= s < Base
BigMulSmall(a, s) == IF s = 0 THEN <<>> ELSE MulFrom(a, s, 1, 0)

RECURSIVE DivFrom(_, _, _, _)
DivFrom(a, d, i, rem) ==
  IF i = 0 THEN [q |-> <<>>, r |-> rem]
  ELSE LET cur  == rem * Base + a[i]
           rest == DivFrom(a, d, i - 1, cur % d)
       IN  [q |-> rest.q \o <<cur \div d>>, r |-> rest.r]

\* quotient and remainder of a by d, 0 < d < 2^16
BigDivSmall(a, d) ==
  LET res == DivFrom(a, d, Len(a), 0) IN [q |-> Norm(res.q), r |-> res.r]

\* the natural n < 2^30 as a big natural
BigFromInt(n) == Norm(<<n % Base, n \div Base>>)

RECURSIVE BitLenSmall(_)
BitLenSmall(x) == IF x = 0 THEN 0 ELSE 1 + BitLenSmall(x \div 2)

BitLen(a) ==
  IF a = <<>> THEN 0 ELSE 15 * (Len(a) - 1) + BitLenSmall(a[Len(a)])

\* a mod 2^k
LowBits(a, k) ==
  LET full == k \div 15
      part == k % 15
      n    == IF part > 0 THEN full + 1 ELSE full
      m    == IF Len(a) < n THEN Len(a) ELSE n
  IN  Norm([i \in 1..m |-> IF i <= full THEN a[i] ELSE a[i] % Pow2(part)])

\* 2^k
Pow2Big(k) ==
  [i \in 1..(k \div 15 + 1) |-> IF i = k \div 15 + 1 THEN Pow2(k % 15) ELSE 0]

\* bit k of a (bit 0 is the lowest)
BitAt(a, k) == (Limb(a, k \div 15 + 1) \div Pow2(k % 15)) % 2

(***************************************************************************)
(* binary64 values.  Every float the scorer computes is a multiple of      *)
(* 2^-75 below 2^30, so a float is held as a sign and the big natural      *)
(* |x| * 2^75 (five fraction limbs, then the integer part).                *)
(***************************************************************************)
\* significand width of binary64: 52 stored bits and the implicit one
MantBits == 52 + 1

FracLimbs == 4 + 1

FracBits == 15 * FracLimbs

\* Round the magnitude a (with sticky: nonzero bits below a's unit) to
\* MantBits significant bits, to nearest, ties to even.
RoundMant(a, sticky) ==
  LET len == BitLen(a) IN
  IF len <= MantBits THEN a
  ELSE LET k    == len - MantBits
           r    == LowBits(a, k)
           down == BigSub(a, r)
           cmp  == BigCmp(r, Pow2Big(k - 1))
           up   == cmp > 0 \/ (cmp = 0 /\ (sticky \/ BitAt(a, k) = 1))
       IN  IF up THEN BigAdd(down, Pow2Big(k)) ELSE down

FZero == [neg |-> FALSE, mag |-> <<>>]

Abs(n) == IF n < 0 THEN -n ELSE n

\* float(n) for an int |n| < 2^30 (exact)
FFromInt(n) ==
  IF n = 0 THEN FZero
  ELSE [neg |-> n < 0, mag |-> [i \in 1..FracLimbs |-> 0] \o BigFromInt(Abs(n))]

FNeg(x) == IF x.mag = <<>> THEN x ELSE [neg |-> ~x.neg, mag |-> x.mag]

\* x + y, correctly rounded
FAdd(x, y) ==
  IF x.neg = y.neg
  THEN [neg |-> x.neg, mag |-> RoundMant(BigAdd(x.mag, y.mag), FALSE)]
  ELSE LET c == BigCmp(x.mag, y.mag) IN
       IF c = 0 THEN FZero
       ELSE IF c > 0
       THEN [neg |-> x.neg, mag |-> RoundMant(BigSub(x.mag, y.mag), FALSE)]
       ELSE [neg |-> y.neg, mag |-> RoundMant(BigSub(y.mag, x.mag), FALSE)]

FSub(x, y) == FAdd(x, FNeg(y))

\* abs(x) >= abs(y)
FAbsGe(x, y) == BigCmp(x.mag, y.mag) >= 0

\* n * x for an int |n| < Base and a float x: the int is converted exactly,
\* the product is correctly rounded
FMulInt(n, x) ==
  IF n = 0 \/ x.mag = <<>> THEN FZero
  ELSE [neg |-> (n < 0) # x.neg,
        mag |-> RoundMant(BigMulSmall(x.mag, Abs(n)), FALSE)]

\* n / d for ints 0 <= n < 2^30, 0 < d < 2^16 with n / d >= 2^-12 or n = 0:
\* Python's true division, correctly rounded.  The quotient is taken with
\* one guard limb, rounded, and the guard limb (then zero) dropped.
IntTrueDiv(n, d) ==
  IF n = 0 THEN FZero
  ELSE LET num == [i \in 1..(FracLimbs + 1) |-> 0] \o BigFromInt(n)
           qr  == BigDivSmall(num, d)
           rq  == RoundMant(qr.q, qr.r # 0)
       IN  [neg |-> FALSE, mag |-> SubSeq(rq, 2, Len(rq))]

\* integer part of |x|, below 2^30
IntPart(x) == Limb(x.mag, FracLimbs + 1) + Base * Limb(x.mag, FracLimbs + 2)

\* int(x): truncation toward zero
FTrunc(x) == IF x.neg THEN -IntPart(x) ELSE IntPart(x)

\* round(x): to the nearest int, ties to the even int
FRound(x) ==
  LET ip  == IntPart(x)
      cmp == BigCmp(LowBits(x.mag, FracBits), Pow2Big(FracBits - 1))
      up  == cmp > 0 \/ (cmp = 0 /\ ip % 2 = 1)
      n   == IF up THEN ip + 1 ELSE ip
  IN  IF x.neg THEN -n ELSE n

(***************************************************************************)
(* Python values.  A dict is a function whose domain is its set of keys;   *)
(* a value is tagged with its type, None included.                         *)
(***************************************************************************)
NoneVal == [t |-> "none"]

IntVal(n) == [t |-> "int", v |-> n]

BoolVal(b) == [t |-> "bool", v |-> b]

ListVal(s) == [t |-> "list", v |-> s]

\* d.get(k): None for a missing key
Get(d, k) == IF k \in DOMAIN d THEN d[k] ELSE NoneVal

\* d.get(k, default)
GetOr(d, k, default) == IF k \in DOMAIN d THEN d[k] ELSE default

\* a str, as the sequence of the words and phrases it is made of
StrVal(x) == [t |-> "str", v |-> x]

\* a dict with str keys
DictVal(x) == [t |-> "dict", v |-> x]

\* bool(v): None, False, 0, the empty list, the empty str and the empty dict
\* are falsy
Truthy(v) ==
  CASE v.t = "none" -> FALSE
    [] v.t = "bool" -> v.v
    [] v.t = "int"  -> v.v # 0
    [] v.t = "list" -> v.v # <<>>
    [] v.t = "str"  -> v.v # <<>>
    [] v.t = "dict" -> DOMAIN v.v # {}

\* whether `k in x` is defined: a dict, list or str; for None, a number or a
\* bool it raises TypeError
CanContain(x) == x.t \in {"dict", "list", "str"}

\* k in x, for a str k and a dict (a key), list (an element) or str (a substring)
Contains(k, x) ==
  CASE x.t = "dict" -> k \in DOMAIN x.v
    [] x.t = "list" -> \E i \in DOMAIN x.v : x.v[i] = StrVal(<<k>>)
    [] x.t = "str"  -> \E i \in DOMAIN x.v : x.v[i] = k

\* mutant: a missing score taken as the neutral 50, as a missing load time is
OrZero_NoneIsFifty(v) == IF v.t = "none" THEN 50 ELSE v.v

\* v or 0, for v an int or None
OrZero(v) == IF Truthy(v) THEN v.v ELSE 0

AuditKeys ==
  {"performance_score", "seo_score", "accessibility_score", "mobile_friendly",
   "ssl_valid", "has_title", "has_meta_description", "has_viewport",
   "has_og_tags", "has_favicon", "load_time_ms", "major_issues"}

(***************************************************************************)
(* LeadScorer                                                              *)
(***************************************************************************)
\* the keys of WEIGHTS, in the dict's (insertion) order, which is also the
\* insertion order of the scores dict built by score
WeightKeys ==
  <<"performance", "seo", "accessibility", "mobile", "ssl", "meta_quality",
    "load_speed">>

\* the float literals of WEIGHTS: each the binary64 nearest to its decimal
WEIGHTS ==
  [performance   |-> IntTrueDiv(25, 100),
   seo           |-> IntTrueDiv(20, 100),
   accessibility |-> IntTrueDiv(15, 100),
   mobile        |-> IntTrueDiv(15, 100),
   ssl           |-> IntTrueDiv(10, 100),
   meta_quality  |-> IntTrueDiv(10, 100),
   load_speed    |-> IntTrueDiv(5, 100)]

meta_checks ==
  <<"has_title", "has_meta_description", "has_viewport", "has_og_tags",
    "has_favicon">>

\* mutant: 25 points per flag, as if there were four flags
MetaScore_QuarterEach(audit) ==
  25 * Cardinality({i \in 1..Len(meta_checks) : Truthy(Get(audit, meta_checks[i]))})

\* the loop over meta_checks: 20 points per truthy flag
MetaScore(audit) ==
  20 * Cardinality({i \in 1..Len(meta_checks) : Truthy(Get(audit, meta_checks[i]))})

\* int(100 - ((load_ms - 1000) / 4000) * 100), for 1000 < load_ms < 5000
LoadRamp(load_ms) ==
  FTrunc(FSub(FFromInt(100), FMulInt(100, IntTrueDiv(load_ms - 1000, 4000))))

\* scores['load_speed'] from audit.get('load_time_ms')
LoadSpeedScore(load_ms) ==
  IF Truthy(load_ms)
  THEN IF load_ms.v <= 1000 THEN 100
       ELSE IF load_ms.v >= 5000 THEN 0
       ELSE LoadRamp(load_ms.v)
  ELSE 50

\* mutant: ssl read from the analyzer's has_ssl key, which the snapshot lacks
IndividualScores_HasSslKey(audit) ==
  [performance   |-> OrZero(Get(audit, "performance_score")),
   seo           |-> OrZero(Get(audit, "seo_score")),
   accessibility |-> OrZero(Get(audit, "accessibility_score")),
   mobile        |-> IF Truthy(Get(audit, "mobile_friendly")) THEN 100 ELSE 0,
   ssl           |-> IF Truthy(Get(audit, "has_ssl")) THEN 100 ELSE 0,
   meta_quality  |-> MetaScore(audit),
   load_speed    |-> LoadSpeedScore(Get(audit, "load_time_ms"))]

\* the scores dict
IndividualScores(audit) ==
  [performance   |-> OrZero(Get(audit, "performance_score")),
   seo           |-> OrZero(Get(audit, "seo_score")),
   accessibility |-> OrZero(Get(audit, "accessibility_score")),
   mobile        |-> IF Truthy(Get(audit, "mobile_friendly")) THEN 100 ELSE 0,
   ssl           |-> IF Truthy(Get(audit, "ssl_valid")) THEN 100 ELSE 0,
   meta_quality  |-> MetaScore(audit),
   load_speed    |-> LoadSpeedScore(Get(audit, "load_time_ms"))]

\* mutant: load_speed weighed as a penalty, as if it were the load time
Products_LoadAsPenalty(scores) ==
  [i \in 1..Len(WeightKeys) |->
     FMulInt(IF WeightKeys[i] = "load_speed" THEN 100 - scores[WeightKeys[i]]
             ELSE scores[WeightKeys[i]],
             WEIGHTS[WeightKeys[i]])]

\* the generator scores[key] * cls.WEIGHTS[key] for key in cls.WEIGHTS
Products(scores) ==
  [i \in 1..Len(WeightKeys) |-> FMulInt(scores[WeightKeys[i]], WEIGHTS[WeightKeys[i]])]

RECURSIVE NaiveFrom(_, _, _)
NaiveFrom(xs, i, acc) ==
  IF i > Len(xs) THEN acc ELSE NaiveFrom(xs, i + 1, FAdd(acc, xs[i]))

\* sum(xs) of CPython before 3.12: 0 + x1 + x2 + ... left to right
NaiveSum(xs) == NaiveFrom(xs, 1, FZero)

RECURSIVE NeumaierFrom(_, _, _, _)
NeumaierFrom(xs, i, f, c) ==
  IF i > Len(xs) THEN (IF c.mag # <<>> THEN FAdd(f, c) ELSE f)
  ELSE LET x == xs[i]
           t == FAdd(f, x)
           d == IF FAbsGe(f, x) THEN FAdd(FSub(f, t), x) ELSE FAdd(FSub(x, t), f)
       IN  NeumaierFrom(xs, i + 1, t, FAdd(c, d))

\* sum(xs) of CPython 3.12 and later: 0 + x1, then compensated summation
NeumaierSum(xs) ==
  IF xs = <<>> THEN FZero ELSE NeumaierFrom(xs, 2, FAdd(FZero, xs[1]), FZero)

\* the same generator over a WEIGHTS table read from the class at call time
ProductsWith(scores, weights) ==
  [i \in 1..Len(WeightKeys) |-> FMulInt(scores[WeightKeys[i]], weights[WeightKeys[i]])]

\* composite = round(sum(...)) over that table
CompositeWith(scores, weights, compensated) ==
  FRound(IF compensated THEN NeumaierSum(ProductsWith(scores, weights))
         ELSE NaiveSum(ProductsWith(scores, weights)))

\* composite = round(sum(...)); compensated tells which sum the interpreter has
Composite(scores, compensated) ==
  FRound(IF compensated THEN NeumaierSum(Products(scores))
         ELSE NaiveSum(Products(scores)))

\* mutant: the HOT threshold taken inclusively
_classify_HotAt50(score) ==
  IF score <= 50 THEN "HOT"
  ELSE IF score < 70 THEN "WARM"
  ELSE IF score < 85 THEN "COLD"
  ELSE "SKIP"

_classify(score) ==
  IF score < 50 THEN "HOT"
  ELSE IF score < 70 THEN "WARM"
  ELSE IF score < 85 THEN "COLD"
  ELSE "SKIP"

Min(a, b) == IF a <= b THEN a ELSE b

\* mutant: the composite score not inverted
_qualification_score_NotInverted(composite, critical_count) ==
  Min(composite + Min(critical_count * 5, 25), 100)

\* mutant: the boost is not capped at 25
_qualification_score_NoCap(composite, critical_count) ==
  Min(100 - composite + critical_count * 5, 100)

_qualification_score(composite, critical_count) ==
  LET base  == 100 - composite
      boost == Min(critical_count * 5, 25)
  IN  Min(base + boost, 100)

\* the 'service' entries of pitch_map
pitch_map ==
  [performance   |-> "Performance Optimization",
   seo           |-> "SEO Improvement",
   mobile        |-> "Mobile Responsiveness",
   accessibility |-> "Accessibility & UX Fix",
   ssl           |-> "Security Setup",
   meta_quality  |-> "SEO Foundation"]

RECURSIVE FirstMin_LastWins(_, _, _, _)
\* mutant: on a tie the last item wins
FirstMin_LastWins(keys, scores, i, best) ==
  IF i > Len(keys) THEN best
  ELSE FirstMin_LastWins(keys, scores, i + 1,
                         IF scores[keys[i]] <= scores[best] THEN keys[i] ELSE best)

RECURSIVE FirstMin(_, _, _, _)
\* min(items, key=...): the first item of the least key
FirstMin(keys, scores, i, best) ==
  IF i > Len(keys) THEN best
  ELSE FirstMin(keys, scores, i + 1,
                IF scores[keys[i]] < scores[best] THEN keys[i] ELSE best)

_recommend_service(scores) ==
  LET items   == SelectSeq(WeightKeys, LAMBDA k : k # "load_speed")
      weakest == FirstMin(items, scores, 2, items[1])
  IN  IF weakest \in DOMAIN pitch_map THEN pitch_map[weakest]
      ELSE "Website Improvement"

\* i.get('severity') of an issue dict
Severity(i) == IF "severity" \in DOMAIN i THEN i["severity"] ELSE "None"

CountSeverity(issues, sev) ==
  Cardinality({i \in 1..Len(issues) : Severity(issues[i]) = sev})

\* mutant: HOT only above 5 critical issues
Escalate_HotAbove5(priority, critical_count) ==
  LET p1 == IF critical_count >= 3 /\ priority = "COLD" THEN "WARM" ELSE priority
  IN  IF critical_count > 5 THEN "HOT" ELSE p1

\* mutant: COLD lifted only above 3 critical issues
Escalate_WarmAbove3(priority, critical_count) ==
  LET p1 == IF critical_count > 3 /\ priority = "COLD" THEN "WARM" ELSE priority
  IN  IF critical_count >= 5 THEN "HOT" ELSE p1

\* mutant: 3 critical issues lift any tier by one
Escalate_OneTierUp(priority, critical_count) ==
  LET p1 == IF critical_count >= 3
            THEN (CASE priority = "COLD" -> "WARM"
                    [] priority = "WARM" -> "HOT"
                    [] OTHER -> priority)
            ELSE priority
  IN  IF critical_count >= 5 THEN "HOT" ELSE p1

\* mutant: 3 critical issues make any lead WARM
Escalate_WarmFromThree(priority, critical_count) ==
  LET p1 == IF critical_count >= 3 THEN "WARM" ELSE priority
  IN  IF critical_count >= 5 THEN "HOT" ELSE p1

\* the two escalation statements, in order
Escalate(priority, critical_count) ==
  LET p1 == IF critical_count >= 3 /\ priority = "COLD" THEN "WARM" ELSE priority
  IN  IF critical_count >= 5 THEN "HOT" ELSE p1

\* what score does once the scores dict and the composite are there: the
\* issue counts, the priority, and the returned dict or the exception raised
Outcome(scores, composite, issues) ==
  IF issues.t # "list"
  THEN [status |-> "raised", exc |-> "TypeError"]
  ELSE LET critical_count == CountSeverity(issues.v, "critical")
           warning_count  == CountSeverity(issues.v, "warning")
       IN  [status |-> "returned",
            composite_score     |-> composite,
            priority            |-> Escalate(_classify(composite), critical_count),
            individual_scores   |-> scores,
            critical_issues     |-> critical_count,
            warning_issues      |-> warning_count,
            total_issues        |-> Len(issues.v),
            recommended_service |-> _recommend_service(scores),
            qualification_score |-> _qualification_score(composite, critical_count)]

\* LeadScorer.score: the returned dict, or the exception raised
score(audit, compensated) ==
  LET scores    == IndividualScores(audit)
      composite == Composite(scores, compensated)
      issues    == GetOr(audit, "major_issues", ListVal(<<>>))
  IN  Outcome(scores, composite, issues)

(***************************************************************************)
(* OutreachGenerator                                                       *)
(*                                                                         *)
(* What gemini.generate returns is None or a text; a text is held as what  *)
(* json.loads makes of it: a JSON value, or Unparsable when json.loads     *)
(* raises JSONDecodeError.                                                 *)
(***************************************************************************)
Unparsable == [t |-> "unparsable"]

TextOf(json) == [t |-> "text", json |-> json]

\* raw.get(k, default) of _build_audit_dict, raw being raw_data or {}
RawGet(raw, k, default) ==
  IF raw.t = "dict" /\ k \in DOMAIN raw.v THEN raw.v[k] ELSE default

OrEmptyList(v) == IF Truthy(v) THEN v ELSE ListVal(<<>>)

_build_audit_dict(audit_record) ==
  LET raw == audit_record.raw_data
  IN  [performance_score    |-> audit_record.performance_score,
       seo_score            |-> audit_record.seo_score,
       accessibility_score  |-> audit_record.accessibility_score,
       mobile_friendly      |-> audit_record.mobile_friendly,
       major_issues         |-> OrEmptyList(audit_record.major_issues),
       ssl_valid            |-> RawGet(raw, "ssl_valid", BoolVal(FALSE)),
       load_time_ms         |-> RawGet(raw, "load_time_ms", NoneVal),
       has_title            |-> RawGet(raw, "has_title", BoolVal(FALSE)),
       has_meta_description |-> RawGet(raw, "has_meta_description", BoolVal(FALSE)),
       has_viewport         |-> RawGet(raw, "has_viewport", BoolVal(FALSE)),
       has_og_tags          |-> RawGet(raw, "has_og_tags", BoolVal(FALSE)),
       has_favicon          |-> RawGet(raw, "has_favicon", BoolVal(FALSE))]

Ok(v) == [status |-> "returned", value |-> v]

Raised(e) == [status |-> "raised", exc |-> e]

\* _get_audit_summary once gemini.generate has answered: None for no
\* response or unparsable text, else the parsed value, complete or partial
_get_audit_summary(response) ==
  IF response.t = "none" THEN Ok(NoneVal)
  ELSE IF response.json = Unparsable THEN Ok(NoneVal)
  ELSE IF ~CanContain(response.json) THEN Raised("TypeError")
  ELSE Ok(response.json)

\* the problems _fallback_summary lists, each by the words the subject line
\* is later chosen by
SlowLoad == StrVal(<<"your website takes", "seconds", "to", "load">>)

NoDescription == StrVal(<<"Google", "has no description to show in", "search", "results">>)

NoTitle == StrVal(<<"no proper page title for", "search", "engines">>)

NotMobile == StrVal(<<"your site may not display correctly on phones">>)

NoSsl == StrVal(<<"visitors see a", "Not Secure", "warning">>)

NoOgTags == StrVal(<<"shared on social media without an image or preview">>)

SomeIssues == StrVal(<<"your website has some technical issues">>)

Keep(cond, x) == IF cond THEN <<x>> ELSE <<>>

_fallback_summary(lead, audit, scoring) ==
  LET load_ms  == Get(audit, "load_time_ms")
      found    == Keep(Truthy(load_ms) /\ load_ms.v > 3000, SlowLoad)
                    \o Keep(~Truthy(Get(audit, "has_meta_description")), NoDescription)
                    \o Keep(~Truthy(Get(audit, "has_title")), NoTitle)
                    \o Keep(~Truthy(Get(audit, "mobile_friendly")), NotMobile)
                    \o Keep(~Truthy(Get(audit, "ssl_valid")), NoSsl)
                    \o Keep(~Truthy(Get(audit, "has_og_tags")), NoOgTags)
      problems == IF found = <<>> THEN <<SomeIssues>> ELSE found
      urgency  == IF scoring.composite_score < 50 THEN "high"
                  ELSE IF scoring.composite_score < 70 THEN "medium"
                  ELSE "low"
  IN  DictVal([summary         |-> StrVal(<<lead.business_name, "summary", urgency>>),
               business_impact |-> StrVal(<<"harder to find and trust", lead.business_name>>),
               top_problems    |-> ListVal(problems),
               urgency         |-> StrVal(<<urgency>>)])

\* outreach_email_prompt raises when audit_summary has no get (not a dict)
\* or its top_problems cannot be sliced (None or a number)
PromptRaises(audit_summary) ==
  \/ audit_summary.t # "dict"
  \/ /\ "top_problems" \in DOMAIN audit_summary.v
     /\ audit_summary.v["top_problems"].t \notin {"list", "str"}

\* any(w in p for some w of words, for p in problems), left to right:
\* "raise" when a p that is no str, list or dict is reached first
RECURSIVE AnyHas(_, _, _)
AnyHas(problems, words, i) ==
  IF i > Len(problems) THEN "no"
  ELSE IF ~CanContain(problems[i]) THEN "raise"
  ELSE IF \E w \in words : Contains(w, problems[i]) THEN "yes"
  ELSE AnyHas(problems, words, i + 1)

\* the subject line of _fallback_email: the first of the three any() tests
\* that holds, or raises as the tests do
SubjectOf(business_name, problems) ==
  LET a == AnyHas(problems, {"load", "seconds"}, 1)
      b == AnyHas(problems, {"search", "Google"}, 1)
      c == AnyHas(problems, {"Not Secure", "ssl"}, 1)
  IN  IF a = "raise" THEN Raised("TypeError")
      ELSE IF a = "yes" THEN Ok(StrVal(<<business_name, "your site might be losing visitors">>))
      ELSE IF b = "yes" THEN Ok(StrVal(<<"Is", business_name, "showing up in local search?">>))
      ELSE IF c = "yes" THEN Ok(StrVal(<<business_name, "website shows a security warning">>))
      ELSE Ok(StrVal(<<"Spotted something on", business_name, "website">>))

\* _fallback_email, for an audit_summary that passed outreach_email_prompt
\* (a dict whose top_problems, if any, is a list or str; a str is walked
\* character by character and no character holds a word)
_fallback_email(business_name, audit_summary) ==
  LET given    == IF "top_problems" \in DOMAIN audit_summary.v
                  THEN audit_summary.v["top_problems"] ELSE ListVal(<<>>)
      problems == IF given.t = "list" THEN given.v
                  ELSE [i \in DOMAIN given.v |-> StrVal(<<"one character">>)]
      urgency  == IF "urgency" \in DOMAIN audit_summary.v
                  THEN audit_summary.v["urgency"] ELSE StrVal(<<"medium">>)
      subject  == SubjectOf(business_name, problems)
      body     == <<"Hi,", "I came across", business_name, "The main one:",
                    IF problems # <<>> THEN problems[1]
                    ELSE StrVal(<<"a few things that might be costing you customers">>)>>
                    \o (IF Len(problems) > 1 THEN <<"There's also", problems[2]>> ELSE <<>>)
                    \o <<IF urgency = StrVal(<<"high">>) THEN "check the next option"
                         ELSE "small things", "Reply 'unsubscribe' to opt out.">>
  IN  IF subject.status = "raised" THEN subject
      ELSE Ok(DictVal([subject_line |-> subject.value, email_body |-> StrVal(body)]))

\* _generate_email once gemini.generate has answered
_generate_email(business_name, audit_summary, response) ==
  IF response.t = "none" THEN _fallback_email(business_name, audit_summary)
  ELSE IF response.json = Unparsable THEN _fallback_email(business_name, audit_summary)
  ELSE IF ~CanContain(response.json) THEN Raised("TypeError")
  ELSE IF Contains("subject_line", response.json) /\ Contains("email_body", response.json)
       THEN Ok(response.json)
  ELSE _fallback_email(business_name, audit_summary)

\* email.get(k, '')
EmailGet(email, k) == IF k \in DOMAIN email.v THEN email.v[k] ELSE StrVal(<<>>)

\* the row _save_outreach has OutreachRepository.create insert: none when
\* email has no get or the database refuses, both caught and logged
_save_outreach(lead_id, email, scoring, save_ok, id) ==
  IF email.t = "dict" /\ save_ok
  THEN <<[id |-> id, lead_id |-> lead_id,
          subject_line |-> EmailGet(email, "subject_line"),
          email_body |-> EmailGet(email, "email_body"),
          qualification_score |-> scoring.qualification_score]>>
  ELSE <<>>

\* mutant: the priority compared with a lower-case 'skip'
ShortCircuits_LowerCase(scoring) == scoring.priority = "skip"

\* if scoring['priority'] == 'SKIP'
ShortCircuits(scoring) == scoring.priority = "SKIP"

\* what generate_for_lead does: what it returns or raises, the answers of
\* gemini.generate it used up, and the outreach rows it inserted
GenOutcome(o, used, rows) ==
  [status |-> o.status, value |-> IF o.status = "returned" THEN o.value ELSE NoneVal,
   used |-> used, rows |-> rows]

\* generate_for_lead from step 6 on: the email is saved and the result built.
\* (Each local variable of generate_for_lead is assigned once: the later
\* steps are operators of the values the earlier steps assigned.)
FromEmail(lead_id, lead, scoring, ai_summary, answers, save_ok, id, made) ==
  LET email == made.value
      rows  == _save_outreach(lead_id, email, scoring, save_ok, id)
  IN  IF made.status = "raised" THEN GenOutcome(made, answers, <<>>)
      ELSE IF ~Truthy(email) THEN GenOutcome(Ok(NoneVal), answers, <<>>)
      ELSE IF email.t # "dict" THEN GenOutcome(Raised("AttributeError"), answers, rows)
      ELSE GenOutcome(Ok(DictVal([lead_id             |-> lead_id,
                                  business_name       |-> lead.business_name,
                                  priority            |-> scoring.priority,
                                  composite_score     |-> scoring.composite_score,
                                  qualification_score |-> scoring.qualification_score,
                                  recommended_service |-> scoring.recommended_service,
                                  subject_line        |-> EmailGet(email, "subject_line"),
                                  email_body          |-> EmailGet(email, "email_body"),
                                  ai_summary          |-> ai_summary,
                                  skipped             |-> FALSE,
                                  outreach_id         |-> IF rows # <<>> THEN IntVal(id)
                                                          ELSE NoneVal])),
                      answers, rows)

\* generate_for_lead from step 5 on: the email is generated from ai_summary
FromSummary(lead_id, lead, scoring, answers, save_ok, id, ai_summary) ==
  IF PromptRaises(ai_summary)
  THEN GenOutcome(Raised(IF ai_summary.t = "dict" THEN "TypeError" ELSE "AttributeError"),
                  <<answers[1]>>, <<>>)
  ELSE CHOOSE o \in {FromEmail(lead_id, lead, scoring, ai_summary, answers, save_ok, id, made) :
                       made \in {_generate_email(lead.business_name, ai_summary, answers[2])}} :
         TRUE

\* generate_for_lead from the SKIP check on
FromScoring(lead_id, lead, audit_data, answers, save_ok, id, scoring) ==
  LET got == _get_audit_summary(answers[1])
  IN  IF scoring.status = "raised" THEN GenOutcome(scoring, <<>>, <<>>)
      ELSE IF ShortCircuits(scoring)
      THEN GenOutcome(Ok(DictVal([lead_id         |-> lead_id,
                                  business_name   |-> lead.business_name,
                                  priority        |-> "SKIP",
                                  composite_score |-> scoring.composite_score,
                                  skipped         |-> TRUE])),
                      <<>>, <<>>)
      ELSE IF got.status = "raised" THEN GenOutcome(got, <<answers[1]>>, <<>>)
      ELSE CHOOSE o \in {FromSummary(lead_id, lead, scoring, answers, save_ok, id, ai_summary) :
                           ai_summary \in {IF Truthy(got.value) THEN got.value
                                           ELSE _fallback_summary(lead, audit_data, scoring)}} :
             TRUE

\* generate_for_lead(lead_id) on the tables leads and audits, gemini.generate
\* answering answers[1] and then answers[2], the database accepting the
\* insert or not, the next outreach id being id
generate_for_lead(lead_id, leads, audits, answers, save_ok, id, compensated) ==
  IF lead_id \notin DOMAIN leads THEN GenOutcome(Ok(NoneVal), <<>>, <<>>)
  ELSE IF lead_id \notin DOMAIN audits THEN GenOutcome(Ok(NoneVal), <<>>, <<>>)
  ELSE CHOOSE o \in {FromScoring(lead_id, leads[lead_id], _build_audit_dict(audits[lead_id]),
                                  answers, save_ok, id, scoring) :
                       scoring \in {score(_build_audit_dict(audits[lead_id]), compensated)}} :
         TRUE

(***************************************************************************)
(* The audit snapshots scored: a base snapshot (one per priority tier)     *)
(* with at most MaxEdits of its keys set to another value, or a snapshot   *)
(* that holds the three PageSpeed scores only.                             *)
(***************************************************************************)
MaxEdits == 1

MaxCritical == 6

MaxWarning == 1

ScoreInputs == {NoneVal} \cup {IntVal(n) : n \in {0, 1, 72, 100, 500}}

BoolInputs == {NoneVal, BoolVal(TRUE), BoolVal(FALSE)}

LoadInputs == {NoneVal} \cup {IntVal(n) : n \in {0, 500, 3200, 6000}}

\* an issue dict as the auditors build it
Issue(sev) == [issue |-> "audit finding", severity |-> sev, score |-> 0]

\* c critical issues, then w warnings (the auditor sorts critical first)
IssueList(c, w) ==
  [i \in 1..(c + w) |-> IF i <= c THEN Issue("critical") ELSE Issue("warning")]

IssueInputs ==
  {NoneVal} \cup {ListVal(IssueList(c, w)) : c \in 0..MaxCritical, w \in 0..MaxWarning}

ScoreKeys == {"performance_score", "seo_score", "accessibility_score"}

InputsOf(k) ==
  CASE k \in ScoreKeys -> ScoreInputs
    [] k = "load_time_ms" -> LoadInputs
    [] k = "major_issues" -> IssueInputs
    [] OTHER -> BoolInputs

\* the dict d with d[k] = v
Put(d, k, v) == [x \in DOMAIN d \cup {k} |-> IF x = k THEN v ELSE d[x]]

\* no key at all (composite 2, HOT)
EmptyAudit == [k \in {} |-> NoneVal]

\* every score 100, every flag true, a fast page, no issue (composite 100, SKIP)
PerfectAudit ==
  [k \in AuditKeys |->
     CASE k \in ScoreKeys -> IntVal(100)
       [] k = "load_time_ms" -> IntVal(500)
       [] k = "major_issues" -> ListVal(<<>>)
       [] OTHER -> BoolVal(TRUE)]

\* perfect but for accessibility 0 and no mobile support (composite 70, COLD)
DecentAudit ==
  [k \in AuditKeys |->
     CASE k = "accessibility_score" -> IntVal(0)
       [] k = "mobile_friendly" -> BoolVal(FALSE)
       [] OTHER -> PerfectAudit[k]]

\* a fast page of full performance and SEO failing all else (composite 50, WARM)
HalfAudit ==
  [k \in AuditKeys |->
     CASE k \in {"performance_score", "seo_score"} -> IntVal(100)
       [] k = "accessibility_score" -> IntVal(0)
       [] k = "load_time_ms" -> IntVal(500)
       [] k = "major_issues" -> ListVal(<<>>)
       [] OTHER -> BoolVal(FALSE)]

BaseAudits == {EmptyAudit, PerfectAudit, DecentAudit, HalfAudit}

AuditEdits == UNION {{<<k, v>> : v \in InputsOf(k)} : k \in AuditKeys}

RECURSIVE Edited(_, _)
Edited(S, n) ==
  IF n = 0 THEN S
  ELSE Edited(S \cup {Put(a, e[1], e[2]) : a \in S, e \in AuditEdits}, n - 1)

\* the snapshots of the three PageSpeed scores alone
ScoreAudits ==
  {[performance_score |-> p, seo_score |-> s, accessibility_score |-> a] :
     p \in ScoreInputs, s \in ScoreInputs, a \in ScoreInputs}

Audits == Edited(BaseAudits, MaxEdits) \cup ScoreAudits

\* the snapshots that differ only in load_time_ms: absent, None, 0..MaxLoadMs
MaxLoadMs == 5200

LoadAudits ==
  {EmptyAudit, Put(EmptyAudit, "load_time_ms", NoneVal)}
    \cup {Put(EmptyAudit, "load_time_ms", IntVal(n)) : n \in 0..MaxLoadMs}

\* the arguments of _qualification_score: composite scores around 0..100
Margin == 20

MaxCount == 7

QualArgs ==
  [composite : (0 - Margin)..(100 + Margin), critical_count : 0..MaxCount]

\* by how much the composite score of a rescored lead is higher
MaxRaise == 3

\* how many times the escalation statements are applied again to their result
MaxReapply == 2

\* the snapshots a re-audit of the same site moves between: every key of
\* RaiseInputs present, each with one of its values
MaxRescores == 1

RaiseInputs ==
  [performance_score   |-> {IntVal(n) : n \in {0, 100}},
   seo_score           |-> {IntVal(n) : n \in {0, 1, 72, 100}},
   accessibility_score |-> {IntVal(n) : n \in {0, 72, 100}},
   mobile_friendly     |-> {BoolVal(FALSE), BoolVal(TRUE)},
   has_title           |-> {BoolVal(FALSE), BoolVal(TRUE)},
   load_time_ms        |-> {IntVal(n) : n \in {500, 3200, 6000}}]

RaiseAudits ==
  {a \in [DOMAIN RaiseInputs -> UNION {RaiseInputs[k] : k \in DOMAIN RaiseInputs}] :
     \A k \in DOMAIN a : a[k] \in RaiseInputs[k]}

\* b scores higher than a in exactly one category and the same in the others
RaisesOne(a, b) ==
  \E sa \in {IndividualScores(a)} : \E sb \in {IndividualScores(b)} :
    \E c \in DOMAIN sa :
      /\ sb[c] > sa[c]
      /\ \A d \in DOMAIN sa \ {c} : sb[d] = sa[d]

\* the leads table, the audit rows a lead may have, and what Gemini answers
LeadIds == {1, 2, 3}

Leads ==
  [i \in {1, 2} |-> [business_name |-> IF i = 1 THEN "Joe Pizza" ELSE "Ali Dental"]]

ColumnKeys ==
  {"performance_score", "seo_score", "accessibility_score", "mobile_friendly",
   "major_issues"}

\* the Audit row the auditor stores for snapshot a
RecordOf(a) ==
  [k \in ColumnKeys |-> Get(a, k)] @@
  [raw_data |-> DictVal([k \in DOMAIN a \ ColumnKeys |-> a[k]])]

\* a row of a failed audit: no score, no raw_data
BlankRecord == [k \in ColumnKeys \cup {"raw_data"} |-> NoneVal]

AuditRecords ==
  {BlankRecord} \cup
  {RecordOf(a) : a \in {PerfectAudit, DecentAudit, HalfAudit,
                        Put(PerfectAudit, "major_issues", ListVal(IssueList(5, 0))),
                        Put(HalfAudit, "load_time_ms", IntVal(3200))}}

AuditTables ==
  {[i \in {1} |-> r] : r \in AuditRecords}
    \cup {[i \in {1, 2} |-> IF i = 1 THEN r ELSE RecordOf(PerfectAudit)] : r \in AuditRecords}

JsonValues ==
  {NoneVal, IntVal(5), ListVal(<<>>), DictVal(<<>>),
   StrVal(<<"sorry">>), StrVal(<<"subject_line", "email_body">>),
   DictVal([summary |-> StrVal(<<"a summary">>)]),
   DictVal([top_problems |-> NoneVal]),
   DictVal([top_problems |-> ListVal(<<IntVal(1), IntVal(2)>>)]),
   DictVal([summary |-> StrVal(<<"a summary">>), business_impact |-> StrVal(<<"an impact">>),
            top_problems |-> ListVal(<<StrVal(<<"pages", "load", "slowly">>)>>),
            urgency |-> StrVal(<<"high">>)]),
   DictVal([subject_line |-> StrVal(<<"a subject">>)]),
   DictVal([subject_line |-> StrVal(<<"a subject">>), email_body |-> StrVal(<<"a body">>)])}

Answers == {NoneVal, TextOf(Unparsable)} \cup {TextOf(j) : j \in JsonValues}

\* concurrent callers of score, the snapshot dicts they pass (two callers
\* may pass the same dict), and how many calls are made in all
Callers == {"t1", "t2"}

Objects == {"o1", "o2"}

MaxCalls == 3

CallAudits ==
  {HalfAudit,
   Put(DecentAudit, "major_issues", ListVal(IssueList(3, 1))),
   Put(EmptyAudit, "major_issues", NoneVal)}

(***************************************************************************)
(* State: the snapshot handed to score and what score gave back; the       *)
(* arguments of a direct _qualification_score call and what it returned;   *)
(* which sum() the interpreter running the scorer has; what the earlier    *)
(* calls for the same lead returned, oldest first.                         *)
(*                                                                         *)
(* Concurrent callers: the class attribute LeadScorer.WEIGHTS; the         *)
(* snapshot dicts the callers hold, by object; the frame of each caller's  *)
(* score call (where it is, its argument, its local variables); the calls  *)
(* that have finished, in the order they finished.                         *)
(*                                                                         *)
(* Outreach generation: the leads and audits tables (by lead id), the      *)
(* outreach table, how many times gemini.generate was called, and what     *)
(* the generate_for_lead call made so far did.                             *)
(*                                                                         *)
(* Pipeline: run is where a run_all call is and what its stages returned;  *)
(* batch is the limit of the repeated generate_batch runs and what the     *)
(* last run did.                                                           *)
(*                                                                         *)
(* Sending: sent_at is the day each outreach row was marked sent (by row   *)
(* id; no entry while sent_at is NULL), today the current day, smtp_log    *)
(* the row ids of the mails the SMTP server accepted, in order, sending    *)
(* what the last send_one or send_batch call did.                          *)
(*                                                                         *)
(* Gemini: the GeminiClient object (whether an API key is configured, its  *)
(* _client, its _call_count) and what the last generate call did.          *)
(***************************************************************************)
VARIABLES audit, result, args, ret, compensated, earlier,
          weights, snapshots, frame, done,
          leads, audits, outreach, gemini_calls, generated,
          run, batch, sent_at, today, smtp_log, sending, gemini, reply

callVars == <<weights, snapshots, frame, done>>

genVars == <<leads, audits, outreach, gemini_calls, generated>>

pipeVars == <<run, batch>>

sendVars == <<sent_at, today, smtp_log, sending>>

gemVars == <<gemini, reply>>

extVars == <<pipeVars, sendVars, gemVars>>

vars == <<audit, result, args, ret, compensated, earlier, callVars, genVars, extVars>>

NotScored == [status |-> "none"]

IdleFrame == [pc |-> "idle", arg |-> "none", given |-> EmptyAudit,
              scores |-> <<>>, composite |-> 0]

\* no leads, and generate_for_lead not called
NoOutreach ==
  /\ leads = <<>>
  /\ audits = <<>>
  /\ outreach = <<>>
  /\ gemini_calls = 0
  /\ generated = NotScored

\* nobody is calling score
NoCalls ==
  /\ weights = WEIGHTS
  /\ snapshots = [o \in Objects |-> EmptyAudit]
  /\ frame = [t \in Callers |-> IdleFrame]
  /\ done = <<>>

NoArgs == [composite |-> 0, critical_count |-> 0]

\* run_all is not running, and generate_batch was not called
IdleRun == [pc |-> "idle"]

NoPipeline ==
  /\ run = IdleRun
  /\ batch = NotScored

\* nothing was sent, and nobody called the sender
NoSending ==
  /\ sent_at = <<>>
  /\ today = 1
  /\ smtp_log = <<>>
  /\ sending = NotScored

\* a GeminiClient as __init__ leaves it, generate not called
NoGemini ==
  /\ gemini = [api_key |-> TRUE, _client |-> FALSE, _call_count |-> 0]
  /\ reply = NotScored

Init ==
  /\ audit \in Audits
  /\ compensated \in BOOLEAN
  /\ result = NotScored
  /\ args = NoArgs
  /\ ret = NotScored
  /\ earlier = <<>>
  /\ NoCalls
  /\ NoOutreach
  /\ NoPipeline
  /\ NoSending
  /\ NoGemini

InitLoad ==
  /\ audit \in LoadAudits
  /\ compensated \in BOOLEAN
  /\ result = NotScored
  /\ args = NoArgs
  /\ ret = NotScored
  /\ earlier = <<>>
  /\ NoCalls
  /\ NoOutreach
  /\ NoPipeline
  /\ NoSending
  /\ NoGemini

InitRaise ==
  /\ audit \in RaiseAudits
  /\ compensated \in BOOLEAN
  /\ result = NotScored
  /\ args = NoArgs
  /\ ret = NotScored
  /\ earlier = <<>>
  /\ NoCalls
  /\ NoOutreach
  /\ NoPipeline
  /\ NoSending
  /\ NoGemini

InitCalls ==
  /\ audit = EmptyAudit
  /\ compensated \in BOOLEAN
  /\ result = NotScored
  /\ args = NoArgs
  /\ ret = NotScored
  /\ earlier = <<>>
  /\ weights = WEIGHTS
  /\ snapshots \in [Objects -> CallAudits]
  /\ frame = [t \in Callers |-> IdleFrame]
  /\ done = <<>>
  /\ NoOutreach
  /\ NoPipeline
  /\ NoSending
  /\ NoGemini

InitGenerate ==
  /\ audit = EmptyAudit
  /\ compensated \in BOOLEAN
  /\ result = NotScored
  /\ args = NoArgs
  /\ ret = NotScored
  /\ earlier = <<>>
  /\ NoCalls
  /\ leads = Leads
  /\ audits \in AuditTables
  /\ outreach = <<>>
  /\ gemini_calls = 0
  /\ generated = NotScored
  /\ NoPipeline
  /\ NoSending
  /\ NoGemini

InitQual ==
  /\ audit = EmptyAudit
  /\ compensated = FALSE
  /\ result = NotScored
  /\ args \in QualArgs
  /\ ret = NotScored
  /\ earlier = <<>>
  /\ NoCalls
  /\ NoOutreach
  /\ NoPipeline
  /\ NoSending
  /\ NoGemini

\* a caller scores the snapshot
Score ==
  /\ result = NotScored
  /\ result' = score(audit, compensated)
  /\ UNCHANGED <<audit, args, ret, compensated, earlier, callVars, genVars, extVars>>

\* a call of _qualification_score(composite, critical_count)
Qualify ==
  /\ ret = NotScored
  /\ ret' = [status |-> "returned",
             value  |-> _qualification_score(args.composite, args.critical_count)]
  /\ UNCHANGED <<audit, result, args, compensated, earlier, callVars, genVars, extVars>>

\* the site is audited again, one category comes out higher, and the new
\* snapshot is scored
RescoreRaised ==
  /\ result # NotScored
  /\ Len(earlier) < MaxRescores
  /\ \E k \in DOMAIN RaiseInputs : \E v \in RaiseInputs[k] :
       /\ v # audit[k]
       /\ RaisesOne(audit, Put(audit, k, v))
       /\ audit' = Put(audit, k, v)
       /\ result' = score(audit', compensated)
  /\ earlier' = Append(earlier, result)
  /\ UNCHANGED <<args, ret, compensated, callVars, genVars, extVars>>

InFlight == {t \in Callers : frame[t].pc # "idle"}

\* caller t calls LeadScorer.score(snapshots[o])
Enter(t, o) ==
  /\ frame[t].pc = "idle"
  /\ Len(done) + Cardinality(InFlight) < MaxCalls
  /\ frame' = [frame EXCEPT ![t] = [pc |-> "scores", arg |-> o, given |-> snapshots[o],
                                    scores |-> <<>>, composite |-> 0]]
  /\ UNCHANGED <<audit, result, args, ret, compensated, earlier,
                 weights, snapshots, done, genVars, extVars>>

\* mutant: the scores dict kept on the class, one dict for every call
BuildScores_SharedDict(t) ==
  /\ frame[t].pc = "scores"
  /\ frame' = [u \in Callers |->
                [frame[u] EXCEPT !.scores = IndividualScores(snapshots[frame[t].arg]),
                                 !.pc = IF u = t THEN "composite" ELSE @]]
  /\ UNCHANGED <<audit, result, args, ret, compensated, earlier,
                 weights, snapshots, done, genVars, extVars>>

\* the call of t fills its local scores dict from the snapshot
BuildScores(t) ==
  /\ frame[t].pc = "scores"
  /\ frame' = [frame EXCEPT ![t].scores = IndividualScores(snapshots[frame[t].arg]),
                            ![t].pc = "composite"]
  /\ UNCHANGED <<audit, result, args, ret, compensated, earlier,
                 weights, snapshots, done, genVars, extVars>>

\* the call of t computes its local composite from its scores and cls.WEIGHTS
SumComposite(t) ==
  /\ frame[t].pc = "composite"
  /\ frame' = [frame EXCEPT ![t].composite =
                              CompositeWith(frame[t].scores, weights, compensated),
                            ![t].pc = "issues"]
  /\ UNCHANGED <<audit, result, args, ret, compensated, earlier,
                 weights, snapshots, done, genVars, extVars>>

\* mutant: the issues taken out of the snapshot with audit.pop
Finish_PopsIssues(t) ==
  /\ frame[t].pc = "issues"
  /\ done' = Append(done,
                [caller |-> t, arg |-> frame[t].arg, given |-> frame[t].given,
                 result |-> Outcome(frame[t].scores, frame[t].composite,
                                    GetOr(snapshots[frame[t].arg], "major_issues",
                                          ListVal(<<>>)))])
  /\ snapshots' = [snapshots EXCEPT ![frame[t].arg] =
                     [k \in DOMAIN @ \ {"major_issues"} |-> @[k]]]
  /\ frame' = [frame EXCEPT ![t] = IdleFrame]
  /\ UNCHANGED <<audit, result, args, ret, compensated, earlier, weights, genVars, extVars>>

\* the call of t reads the issues of the snapshot, counts, classifies and
\* returns (or raises)
Finish(t) ==
  /\ frame[t].pc = "issues"
  /\ done' = Append(done,
                [caller |-> t, arg |-> frame[t].arg, given |-> frame[t].given,
                 result |-> Outcome(frame[t].scores, frame[t].composite,
                                    GetOr(snapshots[frame[t].arg], "major_issues",
                                          ListVal(<<>>)))])
  /\ frame' = [frame EXCEPT ![t] = IdleFrame]
  /\ UNCHANGED <<audit, result, args, ret, compensated, earlier, weights, snapshots, genVars, extVars>>

\* OutreachGenerator.generate_for_lead(lead_id)
GenerateForLead ==
  /\ generated = NotScored
  /\ \E lead_id \in LeadIds : \E r1 \in Answers : \E r2 \in Answers : \E save_ok \in BOOLEAN :
       \E o \in {generate_for_lead(lead_id, leads, audits, <<r1, r2>>, save_ok,
                                    Len(outreach) + 1, compensated)} :
         /\ generated' = [lead_id |-> lead_id] @@ o
         /\ gemini_calls' = gemini_calls + Len(o.used)
         /\ outreach' = outreach \o o.rows
  /\ UNCHANGED <<audit, result, args, ret, compensated, earlier, callVars, leads, audits, extVars>>

Next == Score

NextGenerate == GenerateForLead

NextCalls ==
  \E t \in Callers :
    \/ \E o \in Objects : Enter(t, o)
    \/ BuildScores(t)
    \/ SumComposite(t)
    \/ Finish(t)

NextRaise == Score \/ RescoreRaised

NextQual == Qualify

\* the lead is scored again with as many critical issues and a higher
\* composite score: _qualification_score is called with the new composite
RequalifyHigher ==
  /\ ret # NotScored
  /\ Len(earlier) < MaxRescores
  /\ \E d \in 1..MaxRaise :
       /\ args.composite + d <= 100 + Margin
       /\ args' = [args EXCEPT !.composite = @ + d]
       /\ ret' = [status |-> "returned",
                  value  |-> _qualification_score(args'.composite, args'.critical_count)]
  /\ earlier' = Append(earlier, ret)
  /\ UNCHANGED <<audit, result, compensated, callVars, genVars, extVars>>

NextQualRaise == Qualify \/ RequalifyHigher

\* priority = _classify(composite) followed by the two escalation statements
Prioritise ==
  /\ ret = NotScored
  /\ ret' = [status |-> "returned",
             value  |-> Escalate(_classify(args.composite), args.critical_count)]
  /\ UNCHANGED <<audit, result, args, compensated, earlier, callVars, genVars, extVars>>

\* the two escalation statements applied to the priority they produced
Reescalate ==
  /\ ret # NotScored
  /\ Len(earlier) < MaxReapply
  /\ ret' = [status |-> "returned",
             value  |-> Escalate(ret.value, args.critical_count)]
  /\ earlier' = Append(earlier, ret)
  /\ UNCHANGED <<audit, result, args, compensated, callVars, genVars, extVars>>

NextEscalate == Prioritise \/ Reescalate

Spec == Init /\ [][Next]_vars

SpecLoad == InitLoad /\ [][Next]_vars

SpecQual == InitQual /\ [][NextQual]_vars

SpecQualRaise == InitQual /\ [][NextQualRaise]_vars

SpecCalls == InitCalls /\ [][NextCalls]_vars

SpecEscalate == InitQual /\ [][NextEscalate]_vars

SpecGenerate == InitGenerate /\ [][NextGenerate]_vars

SpecRaise == InitRaise /\ [][NextRaise]_vars

\* the snapshots of Spec and of SpecLoad together
SpecRange == (Init \/ InitLoad) /\ [][Next]_vars

Returned == result.status = "returned"

\* the issues of the snapshot that are critical, counted on the snapshot
AuditCriticals ==
  LET issues == GetOr(audit, "major_issues", ListVal(<<>>))
  IN  IF issues.t = "list"
      THEN Cardinality({i \in DOMAIN issues.v : issues.v[i].severity = "critical"})
      ELSE 0

\* the tier the specification gives a composite score
Tier(c) ==
  CASE c < 50 -> "HOT"
    [] c \in 50..69 -> "WARM"
    [] c \in 70..84 -> "COLD"
    [] c >= 85 -> "SKIP"

(***************************************************************************)
(* C1: score is total: whichever fields of the snapshot are absent or      *)
(* None, score returns a result and never raises.  (Refuted: a             *)
(* major_issues that is present with value None raises TypeError.)         *)
(***************************************************************************)
C1_ScoreNeverRaises == result.status # "raised"

\* the weighted sum of the scores, in hundredths, computed exactly
WeightedHundredths(s) ==
  25 * s.performance + 20 * s.seo + 15 * s.accessibility + 15 * s.mobile
    + 10 * s.ssl + 10 * s.meta_quality + 5 * s.load_speed

\* n / 100 for n >= 0, rounded to the nearest integer, ties to even
RoundHalfEven100(n) ==
  LET q == n \div 100
      r == n % 100
  IN  IF r > 50 \/ (r = 50 /\ q % 2 = 1) THEN q + 1 ELSE q

(***************************************************************************)
(* C2: composite_score is the weighted sum of the seven individual_scores  *)
(* (weights .25 .20 .15 .15 .10 .10 .05), rounded to the nearest integer,  *)
(* ties to even.  (Refuted: the float sum of a tie can fall below the      *)
(* half, e.g. seo 1 and accessibility 72 give 13, not 14.)                 *)
(***************************************************************************)
C2_CompositeIsRoundedWeightedSum ==
  Returned =>
    (WeightedHundredths(result.individual_scores) >= 0 =>
       result.composite_score =
         RoundHalfEven100(WeightedHundredths(result.individual_scores)))

(***************************************************************************)
(* C3: with fewer than 3 critical issues the priority is the tier of the   *)
(* composite score: < 50 HOT, 50..69 WARM, 70..84 COLD, >= 85 SKIP.        *)
(***************************************************************************)
C3_PriorityByCompositeAlone ==
  (Returned /\ AuditCriticals < 3) => result.priority = Tier(result.composite_score)

\* a snapshot of composite exactly 50 with two critical issues is WARM
C3_Witness ==
  /\ Returned
  /\ AuditCriticals = 2
  /\ result.composite_score = 50
  /\ result.priority = "WARM"

(***************************************************************************)
(* C4: with 5 or more critical issues the priority is HOT whatever the     *)
(* composite score, also when the composite alone would give SKIP.         *)
(***************************************************************************)
C4_FiveCriticalsAreHot ==
  (Returned /\ AuditCriticals >= 5) => result.priority = "HOT"

\* a snapshot of SKIP composite with at least five critical issues, scored HOT
C4_Witness ==
  /\ Returned
  /\ AuditCriticals >= 5
  /\ result.composite_score >= 85
  /\ result.priority = "HOT"

(***************************************************************************)
(* C5: with exactly 3 or 4 critical issues the priority is WARM when the   *)
(* composite is in 70..84 (COLD) and the tier of the composite otherwise.  *)
(***************************************************************************)
C5_ThreeCriticalsLiftCold ==
  (Returned /\ AuditCriticals \in {3, 4}) =>
    result.priority =
      (IF result.composite_score \in 70..84 THEN "WARM"
       ELSE Tier(result.composite_score))

\* a snapshot of COLD composite with exactly three critical issues, scored WARM
C5_Witness ==
  /\ Returned
  /\ AuditCriticals = 3
  /\ result.composite_score \in 70..84
  /\ result.priority = "WARM"

Clamp(x, lo, hi) == IF x < lo THEN lo ELSE IF x > hi THEN hi ELSE x

(***************************************************************************)
(* C6: for composite in 0..100 and critical_count >= 0 the qualification   *)
(* score is clamp(100 - composite + min(critical_count * 5, 25), 0, 100).  *)
(***************************************************************************)
C6_QualificationFormula ==
  (ret.status = "returned" /\ args.composite \in 0..100) =>
    ret.value =
      Clamp(100 - args.composite
              + (IF args.critical_count * 5 < 25 THEN args.critical_count * 5 ELSE 25),
            0, 100)

\* a call where both the boost cap and the upper clamp act
C6_Witness ==
  /\ ret.status = "returned"
  /\ args.composite = 10
  /\ args.critical_count = 6
  /\ ret.value = 100

(***************************************************************************)
(* C7: qualification_score is in 0..100 for every snapshot score accepts,  *)
(* also when numeric fields lie outside 0..100.  (Refuted: there is no     *)
(* lower clamp; performance_score 500 gives -28.)                          *)
(***************************************************************************)
C7_QualificationInRange == Returned => result.qualification_score \in 0..100

\* the categories a recommendation is chosen among, in precedence order
Precedence ==
  <<"performance", "seo", "accessibility", "mobile", "ssl", "meta_quality">>

\* the first category, in precedence order, of the least score
Weakest(s) ==
  Precedence[CHOOSE i \in 1..Len(Precedence) :
               /\ \A j \in 1..Len(Precedence) : s[Precedence[i]] <= s[Precedence[j]]
               /\ \A j \in 1..(i - 1) : s[Precedence[j]] > s[Precedence[i]]]

(***************************************************************************)
(* C8: recommended_service is the label of the least-scored category among *)
(* performance, seo, accessibility, mobile, ssl, meta_quality, the first   *)
(* in that order on a tie; load_speed has no say.                          *)
(***************************************************************************)
C8_RecommendWeakestCategory ==
  Returned => result.recommended_service = pitch_map[Weakest(result.individual_scores)]

\* the six categories tie and load_speed is below them all: performance wins
C8_Witness ==
  /\ Returned
  /\ \A i \in 1..Len(Precedence) :
       result.individual_scores[Precedence[i]] = result.individual_scores.performance
  /\ result.individual_scores.load_speed < result.individual_scores.performance
  /\ result.recommended_service = "Performance Optimization"

\* load_time_ms of the snapshot is a present int
LoadPresent == "load_time_ms" \in DOMAIN audit /\ audit["load_time_ms"].t = "int"

LoadMs == audit["load_time_ms"].v

(***************************************************************************)
(* C9: load_speed is 50 when load_time_ms is absent, 100 for every present *)
(* load_time_ms in 0..1000 (0 included) and 0 for every load_time_ms >=    *)
(* 5000.  (Refuted: a load_time_ms of 0 is scored 50.)                     *)
(***************************************************************************)
C9_LoadSpeedEnds ==
  Returned =>
    /\ "load_time_ms" \notin DOMAIN audit => result.individual_scores.load_speed = 50
    /\ (LoadPresent /\ LoadMs \in 0..1000) => result.individual_scores.load_speed = 100
    /\ (LoadPresent /\ LoadMs >= 5000) => result.individual_scores.load_speed = 0

(***************************************************************************)
(* C10: for 1000 < load_time_ms < 5000 load_speed is                       *)
(* 100 - ((load_time_ms - 1000) / 4000) * 100 truncated to an integer, is  *)
(* in 0..100, and is 50 at 3000.  (Refuted: at 3200 the float expression   *)
(* is 44.99999999999999 and the score 44, not 45.)                         *)
(***************************************************************************)
C10_LoadSpeedRamp ==
  (Returned /\ LoadPresent /\ LoadMs > 1000 /\ LoadMs < 5000) =>
    /\ result.individual_scores.load_speed = (400000 - 100 * (LoadMs - 1000)) \div 4000
    /\ result.individual_scores.load_speed \in 0..100
    /\ LoadMs = 3000 => result.individual_scores.load_speed = 50

\* the category of individual_scores each snapshot key alone decides
CategoryOf ==
  [performance_score   |-> "performance",
   seo_score           |-> "seo",
   accessibility_score |-> "accessibility",
   mobile_friendly     |-> "mobile",
   ssl_valid           |-> "ssl"]

Missing(k) == k \notin DOMAIN audit \/ audit[k].t = "none"

(***************************************************************************)
(* C11: a snapshot whose performance_score, seo_score or                   *)
(* accessibility_score is absent or None is scored exactly as the snapshot *)
(* with that field set to 0: the whole result is the same; an absent       *)
(* mobile_friendly or ssl_valid is scored as false, category score 0.      *)
(***************************************************************************)
C11_DefaultSubstitution ==
  /\ \A k \in ScoreKeys :
       (result # NotScored /\ Missing(k)) =>
         /\ result = score(Put(audit, k, IntVal(0)), compensated)
         /\ Returned => result.individual_scores[CategoryOf[k]] = 0
  /\ \A k \in {"mobile_friendly", "ssl_valid"} :
       (Returned /\ k \notin DOMAIN audit) =>
         /\ result.individual_scores[CategoryOf[k]] = 0
         /\ result = score(Put(audit, k, BoolVal(FALSE)), compensated)

C11_Witness ==
  /\ Returned
  /\ "performance_score" \notin DOMAIN audit
  /\ "seo_score" \in DOMAIN audit /\ audit["seo_score"].t = "none"
  /\ "ssl_valid" \notin DOMAIN audit
  /\ result.individual_scores.performance = 0
  /\ result.individual_scores.seo = 0
  /\ result.individual_scores.ssl = 0

\* the three PageSpeed scores are absent, None or in 0..100
ScoresInRange ==
  \A k \in ScoreKeys : Missing(k) \/ (audit[k].t = "int" /\ audit[k].v \in 0..100)

(***************************************************************************)
(* C12: for a snapshot whose performance_score, seo_score and              *)
(* accessibility_score are each in 0..100 or absent, composite_score and   *)
(* every entry of individual_scores are integers in 0..100.                *)
(***************************************************************************)
C12_ScoresInRange ==
  (Returned /\ ScoresInRange) =>
    /\ result.composite_score \in 0..100
    /\ DOMAIN result.individual_scores = {WeightKeys[i] : i \in 1..Len(WeightKeys)}
    /\ \A c \in DOMAIN result.individual_scores : result.individual_scores[c] \in 0..100

C12_Witness ==
  /\ Returned /\ ScoresInRange
  /\ GetOr(audit, "performance_score", NoneVal) = IntVal(100)
  /\ result.composite_score = 100
  /\ result.individual_scores.meta_quality = 100

C14_QualificationMonotone ==
  (ret.status = "returned" /\ earlier # <<>>) =>
    ret.value <= earlier[Len(earlier)].value

C14_Witness ==
  /\ ret.status = "returned" /\ earlier # <<>>
  /\ args.critical_count = 5
  /\ args.composite = 26
  /\ earlier[1].value = 100
  /\ ret.value = 99

(***************************************************************************)
(* C15: score is deterministic: any two calls on identical snapshots       *)
(* return identical results, whatever calls came before or ran meanwhile.  *)
(***************************************************************************)
C15_ScoreDeterministic ==
  \A i, j \in DOMAIN done :
    done[i].given = done[j].given => done[i].result = done[j].result

C15_Witness ==
  /\ Len(done) = 3
  /\ done[1].given = done[3].given
  /\ done[1].given # done[2].given
  /\ done[1].caller # done[3].caller
  /\ done[1].result.status = "returned"
  /\ done[1].result = done[3].result
  /\ done[2].result # done[1].result

(***************************************************************************)
(* C17: score touches no shared mutable state: under every interleaving of *)
(* concurrent calls each call returns what score returns for its snapshot  *)
(* when run alone, and neither the snapshot passed nor the WEIGHTS table   *)
(* is modified.                                                            *)
(***************************************************************************)
C17_NoSharedState ==
  /\ weights = WEIGHTS
  /\ \A t \in InFlight : snapshots[frame[t].arg] = frame[t].given
  /\ \A i \in DOMAIN done :
       /\ done[i].result = score(done[i].given, compensated)
       /\ snapshots[done[i].arg] = done[i].given

\* both callers are inside score on the same dict, after a call has finished
C17_Witness ==
  /\ Len(done) = 1
  /\ done[1].result.status = "returned"
  /\ frame["t1"].pc = "issues"
  /\ frame["t2"].pc = "composite"
  /\ frame["t1"].arg = frame["t2"].arg
  /\ frame["t1"].arg = done[1].arg

\* the snapshot is the perfect one but for its major_issues
PerfectButIssues ==
  \A k \in DOMAIN PerfectAudit \ {"major_issues"} :
    k \in DOMAIN audit /\ audit[k] = PerfectAudit[k]

IssuesAreList == GetOr(audit, "major_issues", ListVal(<<>>)).t = "list"

(***************************************************************************)
(* C16 as stated: for a snapshot with the three scores 100, every boolean  *)
(* true and load_time_ms = 500, whatever its major_issues, score returns   *)
(* composite_score 100 and priority SKIP.  (Refuted: with 5 or more        *)
(* critical issues the priority is HOT.)                                   *)
(***************************************************************************)
C16_PerfectIsSkip ==
  (Returned /\ PerfectButIssues) =>
    /\ result.composite_score = 100
    /\ result.priority = "SKIP"

(***************************************************************************)
(* C16 amended: for a snapshot with the three scores 100, every boolean    *)
(* true and load_time_ms = 500, whatever list its major_issues is, score   *)
(* returns composite_score 100; the priority is SKIP when fewer than 5 of  *)
(* the issues are critical and HOT when 5 or more are.                     *)
(***************************************************************************)
C16_PerfectIsSkipBelowFive ==
  (result # NotScored /\ PerfectButIssues /\ IssuesAreList) =>
    /\ Returned
    /\ result.composite_score = 100
    /\ result.priority = IF AuditCriticals >= 5 THEN "HOT" ELSE "SKIP"

C16_Witness ==
  /\ Returned /\ PerfectButIssues
  /\ result.critical_issues = 5
  /\ result.composite_score = 100
  /\ result.priority = "HOT"

(***************************************************************************)
(* C20: the two escalation rules are idempotent and order-sensitive:       *)
(* applied a second time to their own output they change nothing, and the  *)
(* >= 5 rule, evaluated after the >= 3 rule, overrides its result: with 5  *)
(* or more critical issues the priority is HOT, never the WARM the >= 3    *)
(* rule gives a COLD lead.                                                 *)
(***************************************************************************)
C20_EscalationIdempotent ==
  ret.status = "returned" =>
    /\ earlier # <<>> => ret.value = earlier[Len(earlier)].value
    /\ args.critical_count >= 5 => ret.value = "HOT"
    /\ (args.critical_count \in 3..4 /\ _classify(args.composite) = "COLD") =>
         ret.value = "WARM"

C20_Witness ==
  /\ ret.status = "returned"
  /\ Len(earlier) = MaxReapply
  /\ _classify(args.composite) = "COLD"
  /\ args.critical_count = 5
  /\ earlier[1].value = "HOT"
  /\ ret.value = "HOT"

\* the lead of the generate_for_lead call exists and has an audit
LeadAudited ==
  /\ generated # NotScored
  /\ generated.lead_id \in DOMAIN leads
  /\ generated.lead_id \in DOMAIN audits

\* what score makes of the lead's audit
LeadScoring == score(_build_audit_dict(audits[generated.lead_id]), compensated)

(***************************************************************************)
(* C18: outreach generation is short-circuited for SKIP leads: when        *)
(* generate_for_lead scores a lead as priority SKIP it returns a result    *)
(* marked skipped, calls the text generation not once and creates no       *)
(* outreach record for the lead.                                           *)
(***************************************************************************)
C18_SkipShortCircuits ==
  (LeadAudited /\ LeadScoring.priority = "SKIP") =>
    /\ generated.status = "returned"
    /\ generated.value.t = "dict"
    /\ generated.value.v.skipped = TRUE
    /\ generated.used = <<>>
    /\ gemini_calls = 0
    /\ \A i \in DOMAIN outreach : outreach[i].lead_id # generated.lead_id

C18_Witness ==
  /\ LeadAudited
  /\ generated.lead_id = 1
  /\ LeadScoring.priority = "SKIP"
  /\ generated.value.v.skipped = TRUE
  /\ generated.value.v.composite_score = 100
  /\ gemini_calls = 0
  /\ outreach = <<>>

\* an answer that is no usable email: None, unparsable, or JSON that is not
\* an object holding both subject_line and email_body
NoEmail(r) ==
  \/ r.t = "none"
  \/ r.json = Unparsable
  \/ ~(r.json.t = "dict" /\ {"subject_line", "email_body"} \subseteq DOMAIN r.json.v)

\* an answer that is no summary at all: None or unparsable
NoSummary(r) == r.t = "none" \/ r.json = Unparsable

(***************************************************************************)
(* C19: deterministic fallback: for a lead that exists, has an audit and   *)
(* is not SKIP, when the text-generation API yields no usable response     *)
(* (None, unparsable JSON, or JSON missing subject_line/email_body),       *)
(* generate_for_lead still returns a non-skipped result whose              *)
(* subject_line and email_body are not empty.  (Refuted: an answer that    *)
(* is valid JSON but no object, list or string, such as null or 5, makes   *)
(* generate_for_lead raise TypeError.)                                     *)
(***************************************************************************)
C19_FallbackEmail ==
  (/\ LeadAudited
   /\ LeadScoring.priority # "SKIP"
   /\ generated.used # <<>>
   /\ NoSummary(generated.used[1])
   /\ Len(generated.used) = 2 => NoEmail(generated.used[2])) =>
    /\ generated.status = "returned"
    /\ generated.value.t = "dict"
    /\ generated.value.v.skipped = FALSE
    /\ Truthy(generated.value.v.subject_line)
    /\ Truthy(generated.value.v.email_body)

(***************************************************************************)
(* GeminiClient                                                            *)
(*                                                                         *)
(* A text is the sequence of the pieces it is made of: white space, a      *)
(* code fence with or without the json tag, and the payload.  An error     *)
(* message is the set of the markers generate looks for that occur in it.  *)
(***************************************************************************)
max_retries == 3

Blank == " "

\* the three backquotes that open or close a code block
Fence == "<fence>"

JsonFence == "<fence>json"

Payload == "{...}"

RECURSIVE LStrip(_)
LStrip(text) ==
  IF text # <<>> /\ Head(text) = Blank THEN LStrip(Tail(text)) ELSE text

RECURSIVE RStrip(_)
RStrip(text) ==
  IF text # <<>> /\ text[Len(text)] = Blank THEN RStrip(SubSeq(text, 1, Len(text) - 1))
  ELSE text

\* str.strip()
Strip(text) == RStrip(LStrip(text))

_clean_json(text) ==
  LET t      == Strip(text)
      opened == IF t # <<>> /\ Head(t) = JsonFence THEN Tail(t)
                ELSE IF t # <<>> /\ Head(t) = Fence THEN Tail(t)
                ELSE t
      closed == IF opened # <<>> /\ opened[Len(opened)] = Fence
                THEN SubSeq(opened, 1, Len(opened) - 1)
                ELSE opened
  IN  Strip(closed)

\* what client.models.generate_content does on one attempt: a response
\* with its text (the empty text for no text), or an exception
Responded(text) == [kind |-> "response", text |-> text]

Failed(msg) == [kind |-> "error", msg |-> msg]

\* '429' in error_msg or 'quota' in error_msg.lower()
RateLimited(msg) == "429" \in msg \/ "quota" \in msg

\* 'per day' in error_msg.lower() or 'PerDay' in error_msg
PerDay(msg) == "per day" \in msg

\* 'safety' in error_msg.lower()
SafetyBlocked(msg) == "safety" \in msg

\* what a generate call came to: the value returned, the API attempts made,
\* and whether _call_count was incremented
Generated(value, attempts, counted) ==
  [status |-> "returned", value |-> value, attempts |-> attempts, counted |-> counted]

\* mutant: a safety block is retried like any other error
AfterError_RetriesSafety(msg) ==
  IF RateLimited(msg) /\ PerDay(msg) THEN "return" ELSE "retry"

\* the except clause of an attempt: return None, or sleep and go on
AfterError(msg) ==
  IF RateLimited(msg) THEN (IF PerDay(msg) THEN "return" ELSE "retry")
  ELSE IF SafetyBlocked(msg) THEN "return"
  ELSE "retry"

\* the for loop of generate from attempt number i (the first is 1) on;
\* api[i] is what the API does on attempt i
RECURSIVE Attempts(_, _, _)
Attempts(api, i, expect_json) ==
  IF i > max_retries THEN Generated(NoneVal, max_retries, FALSE)
  ELSE IF api[i].kind = "response"
  THEN IF api[i].text # <<>>
       THEN Generated(StrVal(IF expect_json THEN _clean_json(Strip(api[i].text))
                             ELSE Strip(api[i].text)),
                      i, TRUE)
       ELSE Attempts(api, i + 1, expect_json)
  ELSE IF AfterError(api[i].msg) = "return" THEN Generated(NoneVal, i, FALSE)
  ELSE Attempts(api, i + 1, expect_json)

\* _get_client: the client is there, is made now, or ValueError is raised
_get_client(g) ==
  IF g._client THEN "loaded"
  ELSE IF ~g.api_key THEN "ValueError"
  ELSE "loaded"

\* generate(prompt, expect_json) on the client object g
generate(g, expect_json, api) ==
  IF _get_client(g) # "loaded"
  THEN [status |-> "raised", exc |-> _get_client(g), attempts |-> 0, counted |-> FALSE]
  ELSE Attempts(api, 1, expect_json)

Texts ==
  {<<>>, <<Blank>>, <<Payload>>, <<Blank, Payload, Blank>>,
   <<JsonFence, Blank, Payload, Blank, Fence>>, <<Fence, Payload, Fence, Blank>>}

Markers == {"429", "quota", "per day", "safety"}

ApiOutcomes == {Responded(t) : t \in Texts} \cup {Failed(m) : m \in SUBSET Markers}

\* the client objects a call may find: no API key, a key and no client yet,
\* a client made by an earlier call
Clients ==
  {[api_key |-> FALSE, _client |-> FALSE, _call_count |-> 0],
   [api_key |-> TRUE, _client |-> FALSE, _call_count |-> 0],
   [api_key |-> TRUE, _client |-> TRUE, _call_count |-> 1]}

InitGemini ==
  /\ audit = EmptyAudit
  /\ compensated = FALSE
  /\ result = NotScored
  /\ args = NoArgs
  /\ ret = NotScored
  /\ earlier = <<>>
  /\ NoCalls
  /\ NoOutreach
  /\ NoPipeline
  /\ NoSending
  /\ gemini \in Clients
  /\ reply = NotScored

\* GeminiClient.generate(prompt, expect_json): reply keeps what the call
\* came to and what the API did on the attempts made
Generate ==
  /\ reply = NotScored
  /\ \E expect_json \in BOOLEAN : \E api \in [1..max_retries -> ApiOutcomes] :
       \E o \in {generate(gemini, expect_json, api)} :
         /\ reply' = o @@ [expect_json |-> expect_json, had_key |-> gemini.api_key,
                           api |-> SubSeq(api, 1, o.attempts)]
         /\ gemini' = IF o.status = "raised" THEN gemini
                      ELSE [gemini EXCEPT !._client = TRUE,
                                          !._call_count = @ + (IF o.counted THEN 1 ELSE 0)]
  /\ UNCHANGED <<audit, result, args, ret, compensated, earlier, callVars, genVars,
                 pipeVars, sendVars>>

NextGemini == Generate

SpecGemini == InitGemini /\ [][NextGemini]_vars

(***************************************************************************)
(* C26: generate reports every failure as a value: whatever the API does   *)
(* and whether or not an API key is configured, a call returns a text or   *)
(* None and never raises; without API key it returns None.                 *)
(***************************************************************************)
C26_GenerateNeverRaises ==
  reply # NotScored =>
    /\ reply.status = "returned"
    /\ reply.value.t \in {"str", "none"}
    /\ (~reply.had_key => reply.value = NoneVal)

\* the outcomes of an attempt that end the call: a response with text, an
\* error of the daily quota, an error of the safety filter (an error that
\* mentions 429 or quota is an error of the quota, whatever else it says)
NonEmpty(r) == r.kind = "response" /\ r.text # <<>>

DailyQuotaError(r) == r.kind = "error" /\ RateLimited(r.msg) /\ PerDay(r.msg)

SafetyError(r) == r.kind = "error" /\ SafetyBlocked(r.msg) /\ ~RateLimited(r.msg)

Final(r) == NonEmpty(r) \/ DailyQuotaError(r) \/ SafetyError(r)

(***************************************************************************)
(* C27: a generate call makes at most max_retries API attempts.  It ends   *)
(* at the first attempt that gives a non-empty response (returning a       *)
(* text) or fails with a daily-quota or a safety-filter error (returning   *)
(* None), and otherwise after the third attempt, returning None.           *)
(***************************************************************************)
C27_AtMostThreeAttempts ==
  reply # NotScored =>
    /\ reply.attempts \in 0..max_retries
    /\ Len(reply.api) = reply.attempts
    /\ reply.status = "raised" => reply.attempts = 0
    /\ reply.status = "returned" =>
         /\ reply.attempts >= 1
         /\ \A i \in 1..(reply.attempts - 1) : ~Final(reply.api[i])
         /\ reply.attempts < max_retries => Final(reply.api[reply.attempts])
         /\ reply.value.t = "str" <=> NonEmpty(reply.api[reply.attempts])
         /\ reply.value.t # "str" => reply.value = NoneVal

\* a rate-limit error, an empty response, and then a safety block on the
\* third attempt
C27_Witness ==
  /\ reply # NotScored
  /\ reply.status = "returned"
  /\ reply.attempts = max_retries
  /\ reply.api[1] = Failed({"429"})
  /\ reply.api[2] = Responded(<<>>)
  /\ reply.api[3] = Failed({"safety"})
  /\ reply.value = NoneVal

(***************************************************************************)
(* Escalation and urgency: a snapshot of each tier, with a few critical    *)
(* issues and warnings, is scored; then the auditor reports one more       *)
(* critical issue, at most MaxAdded times, and the snapshot is scored      *)
(* again.                                                                  *)
(***************************************************************************)
MaxAdded == 3

CriticalAudits ==
  {Put(a, "major_issues", ListVal(IssueList(c, w))) :
     a \in BaseAudits, c \in 0..2, w \in 0..1}

InitCritical ==
  /\ audit \in CriticalAudits
  /\ compensated \in BOOLEAN
  /\ result = NotScored
  /\ args = NoArgs
  /\ ret = NotScored
  /\ earlier = <<>>
  /\ NoCalls
  /\ NoOutreach
  /\ NoPipeline
  /\ NoSending
  /\ NoGemini

\* one more critical issue in major_issues, and the new snapshot is scored
RescoreMoreCritical ==
  /\ result # NotScored
  /\ Len(earlier) < MaxAdded
  /\ audit["major_issues"].t = "list"
  /\ audit' = Put(audit, "major_issues",
                  ListVal(<<Issue("critical")>> \o audit["major_issues"].v))
  /\ result' = score(audit', compensated)
  /\ earlier' = Append(earlier, result)
  /\ UNCHANGED <<args, ret, compensated, callVars, genVars, extVars>>

NextCritical == Score \/ RescoreMoreCritical

SpecCritical == InitCritical /\ [][NextCritical]_vars

\* the order of urgency: HOT highest
Urgency(priority) ==
  CASE priority = "HOT"  -> 3
    [] priority = "WARM" -> 2
    [] priority = "COLD" -> 1
    [] priority = "SKIP" -> 0

(***************************************************************************)
(* C28: escalation never lowers urgency: the priority score returns is at  *)
(* least as urgent as the tier of the composite score, and a snapshot      *)
(* with more critical issues never gets a less urgent priority than it     *)
(* got with fewer.                                                         *)
(***************************************************************************)
C28_EscalationNeverLowers ==
  Returned =>
    /\ Urgency(result.priority) >= Urgency(_classify(result.composite_score))
    /\ \A i \in DOMAIN earlier :
         /\ earlier[i].critical_issues < result.critical_issues
         /\ Urgency(earlier[i].priority) <= Urgency(result.priority)

\* a perfect site: SKIP with 2, 3 and 4 critical issues, HOT with 5
C28_Witness ==
  /\ Returned
  /\ Len(earlier) = 3
  /\ earlier[1].priority = "SKIP"
  /\ earlier[1].critical_issues = 2
  /\ earlier[3].priority = "SKIP"
  /\ result.critical_issues = 5
  /\ result.priority = "HOT"

(***************************************************************************)
(* EmailSender                                                             *)
(*                                                                         *)
(* sent_at holds the day of sending of the outreach rows that are marked   *)
(* sent (a row that is not in its domain has sent_at None); days are       *)
(* numbered, today being the UTC day of the clock.  smtp_log is what the   *)
(* SMTP server was handed: the ids of the rows transmitted, in order.      *)
(***************************************************************************)
MAX_DAILY_EMAILS == 2

\* OutreachRepository.count_sent_today
count_sent_today(sent, day) == Cardinality({id \in DOMAIN sent : sent[id] >= day})

\* the orders in which the ids of S come out of ORDER BY
\* qualification_score DESC: rows of equal score in any order
Descending(rows, S) ==
  {o \in [1..Cardinality(S) -> S] :
     /\ \A i, j \in DOMAIN o : i # j => o[i] # o[j]
     /\ \A i, j \in DOMAIN o :
          i < j => rows[o[i]].qualification_score >= rows[o[j]].qualification_score}

\* mutant: ORDER BY qualification_score, lowest first
get_pending_Ascending(rows, sent) ==
  {o \in [1..(Len(rows) - Cardinality(DOMAIN sent)) -> DOMAIN rows \ DOMAIN sent] :
     /\ \A i, j \in DOMAIN o : i # j => o[i] # o[j]
     /\ \A i, j \in DOMAIN o :
          i < j => rows[o[i]].qualification_score <= rows[o[j]].qualification_score}

\* OutreachRepository.get_pending: the lists it may return
get_pending(rows, sent) == Descending(rows, DOMAIN rows \ DOMAIN sent)

\* s[:n] for n >= 0
Take(s, n) == SubSeq(s, 1, Min(n, Len(s)))

\* lead and lead.email, for the lead of outreach row id
Addressed(rows, people, id) ==
  /\ rows[id].lead_id \in DOMAIN people
  /\ Truthy(people[rows[id].lead_id].email)

\* what the mail server and the database do when a row is sent: the mail
\* goes out and the row is marked; the mail goes out and mark_sent raises;
\* no mail goes out (no connection, the recipient refused, an SMTP error)
SmtpOutcomes == {"sent", "unmarked", "failed"}

\* the tables as a send_one call finds and leaves them
Mail(sent, log) == [sent_at |-> sent, smtp_log |-> log]

\* mutant: the limit check lets the count pass the limit by one
LimitReached_Above(sent_today) == sent_today > MAX_DAILY_EMAILS

\* if sent_today >= self.max_daily
LimitReached(sent_today) == sent_today >= MAX_DAILY_EMAILS

\* send_one(outreach_id): what it returns and how it leaves the sender
send_one(m, rows, people, day, outreach_id, smtp) ==
  IF LimitReached(count_sent_today(m.sent_at, day)) THEN [ret |-> FALSE, mail |-> m]
  ELSE IF outreach_id \notin DOMAIN rows THEN [ret |-> FALSE, mail |-> m]
  ELSE IF outreach_id \in DOMAIN m.sent_at THEN [ret |-> FALSE, mail |-> m]
  ELSE IF ~Addressed(rows, people, outreach_id) THEN [ret |-> FALSE, mail |-> m]
  ELSE CASE smtp = "failed" -> [ret |-> FALSE, mail |-> m]
         [] smtp = "unmarked" ->
              [ret |-> FALSE, mail |-> Mail(m.sent_at, Append(m.smtp_log, outreach_id))]
         [] smtp = "sent" ->
              [ret |-> TRUE,
               mail |-> Mail(Put(m.sent_at, outreach_id, day),
                             Append(m.smtp_log, outreach_id))]

\* the loop of send_batch from position i on: send_one for each id
RECURSIVE SendEach(_, _, _, _, _, _, _, _)
SendEach(m, rows, people, day, ids, smtps, i, sent) ==
  IF i > Len(ids) THEN [mail |-> m, sent |-> sent]
  ELSE LET one == send_one(m, rows, people, day, ids[i], smtps[i])
       IN  SendEach(one.mail, rows, people, day, ids, smtps, i + 1,
                    sent + (IF one.ret THEN 1 ELSE 0))

\* the ids send_batch goes through: the first actual_limit of the ids
\* given, or of the pending rows (in the order get_pending gave) whose
\* lead has an email address
BatchIds(rows, people, outreach_ids, pending, actual_limit) ==
  LET HasEmail(id) == Addressed(rows, people, id)
  IN  IF outreach_ids = NoneVal THEN Take(SelectSeq(pending, HasEmail), actual_limit)
      ELSE Take(outreach_ids.v, actual_limit)

\* the ids a send_batch call goes through, none when it returns early
Planned(m, rows, people, day, outreach_ids, limit, pending) ==
  LET remaining == MAX_DAILY_EMAILS - count_sent_today(m.sent_at, day)
  IN  IF remaining <= 0 THEN <<>>
      ELSE BatchIds(rows, people, outreach_ids, pending, Min(limit, remaining))

\* send_batch(outreach_ids, limit), get_pending having returned pending
send_batch(m, rows, people, day, outreach_ids, limit, pending, smtps) ==
  LET sent_today   == count_sent_today(m.sent_at, day)
      remaining    == MAX_DAILY_EMAILS - sent_today
      ids          == Planned(m, rows, people, day, outreach_ids, limit, pending)
      after        == SendEach(m, rows, people, day, ids, smtps, 1, 0)
  IN  IF remaining <= 0
      THEN [ret |-> [sent |-> 0, failed |-> 0, reason |-> "daily_limit"],
            ids |-> <<>>, mail |-> m]
      ELSE IF ids = <<>>
      THEN [ret |-> [sent |-> 0, failed |-> 0, reason |-> "no_pending"],
            ids |-> <<>>, mail |-> m]
      ELSE [ret |-> [sent |-> after.sent, failed |-> Len(ids) - after.sent,
                     total_today |-> sent_today + after.sent],
            ids |-> ids,
            mail |-> after.mail]

\* the leads the sender finds (the second has no email address), the
\* outreach rows waiting, and how far the sender is followed
SendLeads ==
  [i \in 1..3 |->
     [business_name |-> CASE i = 1 -> "Joe Pizza" [] i = 2 -> "Ali Dental" [] i = 3 -> "Kim Motors",
      email |-> IF i = 2 THEN NoneVal ELSE StrVal(<<"owner@site">>)]]

Row(id, lead_id, q) ==
  [id |-> id, lead_id |-> lead_id, subject_line |-> StrVal(<<"a subject">>),
   email_body |-> StrVal(<<"a body">>), qualification_score |-> q]

SendTable == <<Row(1, 1, 55), Row(2, 2, 80), Row(3, 3, 80), Row(4, 1, 55)>>

MaxLimit == 2

MaxMails == 3

MaxDay == 2

BatchArgs == {NoneVal, ListVal(<<3, 1, 1>>)}

InitSend ==
  /\ audit = EmptyAudit
  /\ compensated = FALSE
  /\ result = NotScored
  /\ args = NoArgs
  /\ ret = NotScored
  /\ earlier = <<>>
  /\ NoCalls
  /\ leads = SendLeads
  /\ audits = <<>>
  /\ outreach = SendTable
  /\ gemini_calls = 0
  /\ generated = NotScored
  /\ NoPipeline
  /\ NoSending
  /\ NoGemini

\* EmailSender.send_one(outreach_id); sending keeps what the call found
\* and did
SendOne ==
  /\ Len(smtp_log) < MaxMails
  /\ \E outreach_id \in 1..(Len(outreach) + 1) : \E smtp \in SmtpOutcomes :
       \E o \in {send_one(Mail(sent_at, smtp_log), outreach, leads, today,
                          outreach_id, smtp)} :
         /\ sent_at' = o.mail.sent_at
         /\ smtp_log' = o.mail.smtp_log
         /\ sending' = [op |-> "send_one", outreach_id |-> outreach_id,
                        sent_today |-> count_sent_today(sent_at, today),
                        was_sent |-> outreach_id \in DOMAIN sent_at,
                        transmitted |-> Len(o.mail.smtp_log) - Len(smtp_log),
                        ret |-> o.ret]
  /\ UNCHANGED <<audit, result, args, ret, compensated, earlier, callVars, genVars,
                 pipeVars, today, gemVars>>

\* EmailSender.send_batch(outreach_ids, limit)
SendBatch ==
  /\ \E outreach_ids \in BatchArgs : \E limit \in 0..Min(MaxLimit, MaxMails - Len(smtp_log)) :
       \E pending \in (IF outreach_ids = NoneVal THEN get_pending(outreach, sent_at)
                        ELSE {<<>>}) :
         \E smtps \in [1..Len(Planned(Mail(sent_at, smtp_log), outreach, leads,
                                        today, outreach_ids, limit, pending))
                          -> SmtpOutcomes] :
           \E o \in {send_batch(Mail(sent_at, smtp_log), outreach, leads, today,
                                outreach_ids, limit, pending, smtps)} :
             /\ sent_at' = o.mail.sent_at
             /\ smtp_log' = o.mail.smtp_log
             /\ sending' = [op |-> "send_batch", auto |-> outreach_ids = NoneVal,
                            limit |-> limit,
                            sent_today |-> count_sent_today(sent_at, today),
                            waiting |-> {id \in DOMAIN outreach \ DOMAIN sent_at :
                                           Addressed(outreach, leads, id)},
                            ids |-> o.ids,
                            transmitted |-> Len(o.mail.smtp_log) - Len(smtp_log),
                            ret |-> o.ret]
  /\ UNCHANGED <<audit, result, args, ret, compensated, earlier, callVars, genVars,
                 pipeVars, today, gemVars>>

\* midnight UTC passes
NextDay ==
  /\ today < MaxDay
  /\ today' = today + 1
  /\ UNCHANGED <<audit, result, args, ret, compensated, earlier, callVars, genVars,
                 pipeVars, sent_at, smtp_log, sending, gemVars>>

NextSend == SendOne \/ SendBatch \/ NextDay

SpecSend == InitSend /\ [][NextSend]_vars

\* the qualification_score of outreach row id
ScoreOf(id) == outreach[id].qualification_score

(***************************************************************************)
(* C23: prioritized sending: a send_batch call without outreach_ids goes   *)
(* through pending rows whose lead has an email address only, in           *)
(* non-increasing qualification_score order, and the rows it leaves out    *)
(* score no higher than any row it attempts.                               *)
(***************************************************************************)
C23_SendingOrder ==
  (sending # NotScored /\ sending.op = "send_batch" /\ sending.auto) =>
    /\ \A i \in DOMAIN sending.ids : sending.ids[i] \in sending.waiting
    /\ \A i, j \in DOMAIN sending.ids :
         i < j => /\ sending.ids[i] # sending.ids[j]
                  /\ ScoreOf(sending.ids[i]) >= ScoreOf(sending.ids[j])
    /\ \A i \in DOMAIN sending.ids :
         \A id \in sending.waiting \ {sending.ids[k] : k \in DOMAIN sending.ids} :
           ScoreOf(sending.ids[i]) >= ScoreOf(id)

\* row 3 (score 80) and then row 4 (score 55) are attempted; row 2 scores
\* 80 too but its lead has no address; row 1 (score 55) is left out
C23_Witness ==
  /\ sending # NotScored
  /\ sending.op = "send_batch"
  /\ sending.auto
  /\ sending.ids = <<3, 4>>
  /\ sending.waiting = {1, 3, 4}

(***************************************************************************)
(* C24: the daily limit: the rows marked sent today never number more      *)
(* than MAX_DAILY_EMAILS; a send_one call that finds the limit reached     *)
(* transmits nothing and returns False; a send_batch call transmits at     *)
(* most min(limit, MAX_DAILY_EMAILS - sent_today) mails.                   *)
(***************************************************************************)
C24_DailyLimit ==
  /\ count_sent_today(sent_at, today) <= MAX_DAILY_EMAILS
  /\ (sending # NotScored /\ sending.op = "send_one"
        /\ sending.sent_today >= MAX_DAILY_EMAILS) =>
       (sending.transmitted = 0 /\ ~sending.ret)
  /\ (sending # NotScored /\ sending.op = "send_batch") =>
       /\ sending.transmitted <= Min(sending.limit, MAX_DAILY_EMAILS - sending.sent_today)
       /\ sending.ret.sent <= sending.transmitted

\* the limit was reached today, and send_one was called for a pending row
\* whose lead has an address
C24_Witness ==
  /\ sending # NotScored
  /\ sending.op = "send_one"
  /\ sending.sent_today = MAX_DAILY_EMAILS
  /\ count_sent_today(sent_at, today) = MAX_DAILY_EMAILS
  /\ sending.outreach_id \in DOMAIN outreach \ DOMAIN sent_at
  /\ Addressed(outreach, leads, sending.outreach_id)
  /\ ~sending.ret

(***************************************************************************)
(* C25: each outreach row is transmitted over SMTP at most once, whatever  *)
(* send_one and send_batch calls are made; a send_one call for a row       *)
(* whose sent_at is set transmits nothing and returns False.  (Refuted:    *)
(* when sendmail succeeds and mark_sent then raises, sent_at stays unset   *)
(* and a later call transmits the row again.)                              *)
(***************************************************************************)
C25_AtMostOnce ==
  /\ \A i, j \in DOMAIN smtp_log : i # j => smtp_log[i] # smtp_log[j]
  /\ (sending # NotScored /\ sending.op = "send_one" /\ sending.was_sent) =>
       (sending.transmitted = 0 /\ ~sending.ret)

(***************************************************************************)
(* PipelineOrchestrator and OutreachGenerator.generate_batch               *)
(*                                                                         *)
(* Leads are numbered in the order they were created.  A lead has at most  *)
(* one audit row here: audits[l] is the row AuditRepository.get_by_lead    *)
(* finds, the latest.                                                      *)
(***************************************************************************)
Range(s) == {s[i] : i \in DOMAIN s}

\* the ids of S, highest first
RECURSIVE HighestFirst(_)
HighestFirst(S) ==
  IF S = {} THEN <<>>
  ELSE LET top == CHOOSE x \in S : \A y \in S : y <= x
       IN  <<top>> \o HighestFirst(S \ {top})

\* the leads with an audit and no outreach row
Ready(people, audits_, rows) ==
  {l \in DOMAIN people \cap DOMAIN audits_ : \A i \in DOMAIN rows : rows[i].lead_id # l}

\* _get_ready_leads(limit): the newest first
_get_ready_leads(people, audits_, rows, limit) ==
  Take(HighestFirst(Ready(people, audits_, rows)), limit)

\* mutant: the scoring stage looks for the key ssl in raw_data
audit_dict_WrongSslKey(audit_record) ==
  LET raw == IF Truthy(audit_record.raw_data) THEN audit_record.raw_data.v ELSE <<>>
  IN  [performance_score    |-> audit_record.performance_score,
       seo_score            |-> audit_record.seo_score,
       accessibility_score  |-> audit_record.accessibility_score,
       mobile_friendly      |-> audit_record.mobile_friendly,
       major_issues         |-> IF Truthy(audit_record.major_issues)
                                THEN audit_record.major_issues ELSE ListVal(<<>>),
       ssl_valid            |-> GetOr(raw, "ssl", BoolVal(FALSE)),
       load_time_ms         |-> Get(raw, "load_time_ms"),
       has_title            |-> GetOr(raw, "has_title", BoolVal(FALSE)),
       has_meta_description |-> GetOr(raw, "has_meta_description", BoolVal(FALSE)),
       has_viewport         |-> GetOr(raw, "has_viewport", BoolVal(FALSE)),
       has_og_tags          |-> GetOr(raw, "has_og_tags", BoolVal(FALSE)),
       has_favicon          |-> GetOr(raw, "has_favicon", BoolVal(FALSE))]

\* the audit_dict run_scoring builds from an audit row
audit_dict(audit_record) ==
  LET raw == IF Truthy(audit_record.raw_data) THEN audit_record.raw_data.v ELSE <<>>
  IN  [performance_score    |-> audit_record.performance_score,
       seo_score            |-> audit_record.seo_score,
       accessibility_score  |-> audit_record.accessibility_score,
       mobile_friendly      |-> audit_record.mobile_friendly,
       major_issues         |-> IF Truthy(audit_record.major_issues)
                                THEN audit_record.major_issues ELSE ListVal(<<>>),
       ssl_valid            |-> GetOr(raw, "ssl_valid", BoolVal(FALSE)),
       load_time_ms         |-> Get(raw, "load_time_ms"),
       has_title            |-> GetOr(raw, "has_title", BoolVal(FALSE)),
       has_meta_description |-> GetOr(raw, "has_meta_description", BoolVal(FALSE)),
       has_viewport         |-> GetOr(raw, "has_viewport", BoolVal(FALSE)),
       has_og_tags          |-> GetOr(raw, "has_og_tags", BoolVal(FALSE)),
       has_favicon          |-> GetOr(raw, "has_favicon", BoolVal(FALSE))]

\* the entry run_scoring appends for a lead
Scored(lead_id, lead, scoring) ==
  [lead_id             |-> lead_id,
   business_name       |-> lead.business_name,
   composite_score     |-> scoring.composite_score,
   priority            |-> scoring.priority,
   qualification_score |-> scoring.qualification_score,
   recommended_service |-> scoring.recommended_service,
   critical_issues     |-> scoring.critical_issues]

\* key=lambda x: x['qualification_score']
SortKey(r) == r.qualification_score

\* results.sort(key=..., reverse=True), a stable sort: r is put behind the
\* entries of sorted whose key is not lower
RECURSIVE Inserted(_, _, _)
Inserted(sorted, r, i) ==
  IF i > Len(sorted) THEN Append(sorted, r)
  ELSE IF SortKey(sorted[i]) < SortKey(r)
  THEN SubSeq(sorted, 1, i - 1) \o <<r>> \o SubSeq(sorted, i, Len(sorted))
  ELSE Inserted(sorted, r, i + 1)

RECURSIVE Sorted(_, _, _)
Sorted(results, i, acc) ==
  IF i > Len(results) THEN acc
  ELSE Sorted(results, i + 1, Inserted(acc, results[i], 1))

\* the loop of run_scoring from lead_data[i] on: the results list, or the
\* exception score raised
RECURSIVE ScoreEach(_, _, _, _, _, _)
ScoreEach(lead_data, i, people, audits_, compensated_, results) ==
  IF i > Len(lead_data) THEN Ok(results)
  ELSE IF lead_data[i] \notin DOMAIN audits_
  THEN ScoreEach(lead_data, i + 1, people, audits_, compensated_, results)
  ELSE CHOOSE o \in
         {IF scoring.status = "raised" THEN Raised(scoring.exc)
          ELSE ScoreEach(lead_data, i + 1, people, audits_, compensated_,
                         Append(results, Scored(lead_data[i], people[lead_data[i]], scoring))) :
            scoring \in {score(audit_dict(audits_[lead_data[i]]), compensated_)}} :
         TRUE

\* run_scoring, the query having returned the leads lead_data
run_scoring(lead_data, people, audits_, compensated_) ==
  CHOOSE o \in {IF each.status = "raised" THEN each ELSE Ok(Sorted(each.value, 1, <<>>)) :
                  each \in {ScoreEach(lead_data, 1, people, audits_, compensated_, <<>>)}} :
    TRUE

\* what a generate_batch call did so far: the results collected, the
\* outreach rows inserted, the answers of Gemini used up, and the leads
\* generate_for_lead was called for
Batch(status, results, rows, used, called) ==
  [status |-> status, results |-> results, rows |-> rows, used |-> used, called |-> called]

\* the batch b after generate_for_lead(lead_id) did one
After(b, lead_id, one) ==
  Batch(one.status,
        IF one.status = "returned" /\ Truthy(one.value) THEN Append(b.results, one.value)
        ELSE b.results,
        b.rows \o one.rows, b.used + Len(one.used), Append(b.called, lead_id))

\* the loop of generate_batch from ids[i] on; replies[l] is what Gemini
\* answers to the two prompts for lead l and whether the insert succeeds;
\* an exception of generate_for_lead ends the loop
RECURSIVE GenerateEach(_, _, _, _, _, _, _, _)
GenerateEach(ids, i, people, audits_, rows, replies, compensated_, b) ==
  IF i > Len(ids) THEN b
  ELSE CHOOSE o \in
         {IF next.status = "raised" THEN next
          ELSE GenerateEach(ids, i + 1, people, audits_, rows, replies, compensated_, next) :
            next \in {After(b, ids[i], one) :
                        one \in {generate_for_lead(ids[i], people, audits_,
                                                   <<replies[ids[i]][1], replies[ids[i]][2]>>,
                                                   replies[ids[i]][3],
                                                   Len(rows) + Len(b.rows) + 1, compensated_)}}} :
         TRUE

\* the leads a generate_batch(lead_ids, limit) call goes through
BatchLeads(lead_ids, limit, people, audits_, rows) ==
  IF lead_ids = NoneVal THEN Take(_get_ready_leads(people, audits_, rows, limit), limit)
  ELSE Take(lead_ids.v, limit)

\* generate_batch(lead_ids, limit)
generate_batch(lead_ids, limit, people, audits_, rows, replies, compensated_) ==
  GenerateEach(BatchLeads(lead_ids, limit, people, audits_, rows), 1, people, audits_,
               rows, replies, compensated_, Batch("returned", <<>>, <<>>, 0, <<>>))

\* mutant: only the SKIP leads are left out
Selected_NotSkip(priority) == priority # "SKIP"

\* if r['priority'] in ('HOT', 'WARM')
Selected(priority) == priority \in {"HOT", "WARM"}

\* hot_warm_ids of run_all
hot_warm_ids(scoring_results) ==
  LET Chosen(r) == Selected(r.priority)
      chosen    == SelectSeq(scoring_results, Chosen)
  IN  [i \in DOMAIN chosen |-> chosen[i].lead_id]

\* three leads, and the audit row each may have: lead 1 a COLD site with 2
\* critical issues (composite 70), a perfect site with 5 critical issues
\* (HOT) or none; lead 2 a slow WARM site (composite 65) or a perfect one
\* (SKIP); lead 3 a perfect site, a WARM one (composite 50) or none
PipeLeads ==
  [i \in 1..3 |->
     [business_name |-> CASE i = 1 -> "Joe Pizza" [] i = 2 -> "Ali Dental" [] i = 3 -> "Kim Motors",
      email |-> IF i = 2 THEN NoneVal ELSE StrVal(<<"owner@site">>)]]

ColdRecord == RecordOf(Put(DecentAudit, "major_issues", ListVal(IssueList(2, 0))))

HotRecord == RecordOf(Put(PerfectAudit, "major_issues", ListVal(IssueList(5, 0))))

WarmRecord == RecordOf(Put(DecentAudit, "load_time_ms", IntVal(6000)))

PipeTables ==
  {[l \in S |-> CASE l = 1 -> r1 [] l = 2 -> r2 [] l = 3 -> r3] :
     r1 \in {ColdRecord, HotRecord}, r2 \in {WarmRecord, RecordOf(PerfectAudit)},
     r3 \in {RecordOf(PerfectAudit), RecordOf(HalfAudit)},
     S \in {{1, 2, 3}, {2, 3}, {1, 2}, {2}}}

\* the rows a run_audits call may store
NewRecords == {RecordOf(HalfAudit), RecordOf(PerfectAudit)}

\* what Gemini answers to the two prompts for a lead, and whether the
\* insert of the outreach row succeeds
GoodSummary ==
  TextOf(DictVal([summary |-> StrVal(<<"a summary">>), business_impact |-> StrVal(<<"an impact">>),
                  top_problems |-> ListVal(<<StrVal(<<"pages", "load", "slowly">>)>>),
                  urgency |-> StrVal(<<"high">>)]))

GoodEmail ==
  TextOf(DictVal([subject_line |-> StrVal(<<"a subject">>), email_body |-> StrVal(<<"a body">>)]))

Replies ==
  {<<NoneVal, NoneVal, TRUE>>, <<GoodSummary, GoodEmail, TRUE>>,
   <<NoneVal, NoneVal, FALSE>>, <<NoneVal, TextOf(IntVal(5)), TRUE>>}

\* the orders in which a query without ORDER BY may return the leads S
AnyOrder(S) ==
  {o \in [1..Cardinality(S) -> S] : \A i, j \in DOMAIN o : i # j => o[i] # o[j]}

InitPipeline ==
  /\ audit = EmptyAudit
  /\ compensated \in BOOLEAN
  /\ result = NotScored
  /\ args = NoArgs
  /\ ret = NotScored
  /\ earlier = <<>>
  /\ NoCalls
  /\ leads = PipeLeads
  /\ audits \in PipeTables
  /\ outreach = <<>>
  /\ gemini_calls = 0
  /\ generated = NotScored
  /\ NoPipeline
  /\ NoSending
  /\ NoGemini

\* run_all is entered: stage 1, run_audits(limit=audit_limit), stores an
\* audit row for some of the leads that have none (an audit that fails, or
\* whose row is not saved, stores nothing)
RunAudits ==
  /\ run.pc = "idle"
  /\ \E audit_limit \in 1..MaxLimit : \E generate_limit \in 1..MaxLimit :
       \E S \in SUBSET (DOMAIN leads \ DOMAIN audits) : \E r \in NewRecords :
         /\ Cardinality(S) <= audit_limit
         /\ audits' = [l \in DOMAIN audits \cup S |-> IF l \in S THEN r ELSE audits[l]]
         /\ run' = [pc |-> "audited", audit_limit |-> audit_limit,
                    generate_limit |-> generate_limit]
  /\ UNCHANGED <<audit, result, args, ret, compensated, earlier, callVars,
                 leads, outreach, gemini_calls, generated, batch, sendVars, gemVars>>

\* stage 2: scoring_results = run_scoring(limit=audit_limit)
RunScoring ==
  /\ run.pc = "audited"
  /\ \E lead_data \in AnyOrder(Ready(leads, audits, outreach)) :
       \E o \in {run_scoring(Take(lead_data, run.audit_limit), leads, audits, compensated)} :
         run' = IF o.status = "raised" THEN [pc |-> "raised", exc |-> o.exc]
                ELSE [pc |-> "scored", audit_limit |-> run.audit_limit,
                      generate_limit |-> run.generate_limit,
                      scoring_results |-> o.value, rescanned |-> {}]
  /\ UNCHANGED <<audit, result, args, ret, compensated, earlier, callVars, genVars,
                 batch, sendVars, gemVars>>

\* while run_all is between its stages, another process audits a lead
\* again and stores the new row
AuditStored ==
  /\ run.pc = "scored"
  /\ run.rescanned = {}
  /\ \E l \in DOMAIN audits : \E r \in NewRecords :
       /\ r # audits[l]
       /\ audits' = [audits EXCEPT ![l] = r]
       /\ run' = [run EXCEPT !.rescanned = {l}]
  /\ UNCHANGED <<audit, result, args, ret, compensated, earlier, callVars,
                 leads, outreach, gemini_calls, generated, batch, sendVars, gemVars>>

\* stage 3: run_generation(limit=generate_limit, lead_ids=hot_warm_ids)
\* when hot_warm_ids is not empty
RunGeneration ==
  /\ run.pc = "scored"
  /\ \E ids \in {hot_warm_ids(run.scoring_results)} :
       \E replies \in [Range(Take(ids, run.generate_limit)) -> Replies] :
         \E b \in {IF ids # <<>>
                   THEN generate_batch(ListVal(ids), run.generate_limit, leads, audits,
                                       outreach, replies, compensated)
                   ELSE Batch("returned", <<>>, <<>>, 0, <<>>)} :
           /\ run' = [pc |-> IF b.status = "raised" THEN "raised" ELSE "done",
                      scoring_results |-> run.scoring_results, rescanned |-> run.rescanned,
                      hot_warm_ids |-> ids, invoked |-> ids # <<>>,
                      called |-> b.called, results |-> b.results,
                      rows_before |-> Len(outreach), calls_before |-> gemini_calls]
           /\ outreach' = outreach \o b.rows
           /\ gemini_calls' = gemini_calls + b.used
  /\ UNCHANGED <<audit, result, args, ret, compensated, earlier, callVars,
                 leads, audits, generated, batch, sendVars, gemVars>>

NextPipeline == RunAudits \/ RunScoring \/ AuditStored \/ RunGeneration

SpecPipeline == InitPipeline /\ [][NextPipeline]_vars

\* run_all has gone through its generation stage
Generation == run.pc \in {"done", "raised"} /\ "called" \in DOMAIN run

\* the priority run_scoring gave the lead, "none" when it did not score it
ScoredAs(lead_id) ==
  IF \E i \in DOMAIN run.scoring_results : run.scoring_results[i].lead_id = lead_id
  THEN LET i == CHOOSE i \in DOMAIN run.scoring_results :
                  run.scoring_results[i].lead_id = lead_id
       IN  run.scoring_results[i].priority
  ELSE "none"

\* C21: in run_all, generate_for_lead is called and an outreach row is
\* inserted only for leads run_scoring classified HOT or WARM, and when it
\* classified no lead HOT or WARM run_generation is not invoked: no call,
\* no Gemini request, no row
C21_OnlyHotWarmGenerated ==
  Generation =>
    /\ \A i \in DOMAIN run.called : ScoredAs(run.called[i]) \in {"HOT", "WARM"}
    /\ \A i \in (run.rows_before + 1)..Len(outreach) :
         ScoredAs(outreach[i].lead_id) \in {"HOT", "WARM"}
    /\ (\A i \in DOMAIN run.scoring_results :
          run.scoring_results[i].priority \in {"COLD", "SKIP"})
       => /\ ~run.invoked
          /\ run.called = <<>>
          /\ Len(outreach) = run.rows_before
          /\ gemini_calls = run.calls_before

\* a run that scored a COLD lead and a WARM one and inserted a row
C21_Witness ==
  /\ Generation
  /\ \E i \in DOMAIN run.scoring_results : run.scoring_results[i].priority = "COLD"
  /\ \E i \in DOMAIN run.scoring_results : run.scoring_results[i].priority = "WARM"
  /\ Len(outreach) > run.rows_before

C30_StagesAgree ==
  (Generation /\ run.rescanned = {}) =>
    \A i \in DOMAIN run.results :
      /\ run.results[i].v.priority = ScoredAs(run.results[i].v.lead_id)
      /\ run.results[i].v.skipped = FALSE

\* an undisturbed run whose generation stage returned a HOT lead and a WARM one
C30_Witness ==
  /\ Generation
  /\ run.rescanned = {}
  /\ \E i \in DOMAIN run.results : run.results[i].v.priority = "HOT"
  /\ \E i \in DOMAIN run.results : run.results[i].v.priority = "WARM"

(***************************************************************************)
(* Repeated automatic generation: generate_batch(lead_ids=None, limit=N)   *)
(* is run again and again on the same database, Gemini answering (or the   *)
(* fallback templates standing in) and every insert succeeding.  batch     *)
(* holds N, whether a run was made, the leads the last run called          *)
(* generate_for_lead for and the number of rows it inserted.               *)
(***************************************************************************)
BatchRecords == {ColdRecord, HotRecord, RecordOf(HalfAudit), RecordOf(PerfectAudit)}

BatchTables ==
  UNION {[S -> BatchRecords] : S \in SUBSET DOMAIN PipeLeads}

SuccessReplies == {<<GoodSummary, GoodEmail, TRUE>>, <<NoneVal, NoneVal, TRUE>>}

InitBatch ==
  /\ audit = EmptyAudit
  /\ compensated \in BOOLEAN
  /\ result = NotScored
  /\ args = NoArgs
  /\ ret = NotScored
  /\ earlier = <<>>
  /\ NoCalls
  /\ leads = PipeLeads
  /\ audits \in BatchTables
  /\ outreach = <<>>
  /\ gemini_calls = 0
  /\ generated = NotScored
  /\ run = IdleRun
  /\ \E limit \in 1..MaxLimit :
       batch = [limit |-> limit, ran |-> FALSE, called |-> <<>>, inserted |-> 0]
  /\ NoSending
  /\ NoGemini

\* one more generate_batch(lead_ids=None, limit=batch.limit) run
GenerateBatch ==
  /\ "limit" \in DOMAIN batch
  /\ \E ids \in {BatchLeads(NoneVal, batch.limit, leads, audits, outreach)} :
       \E replies \in [Range(ids) -> SuccessReplies] :
         \E b \in {generate_batch(NoneVal, batch.limit, leads, audits, outreach,
                                  replies, compensated)} :
           /\ b.status = "returned"
           /\ batch' = [limit |-> batch.limit, ran |-> TRUE, called |-> b.called,
                        inserted |-> Len(b.rows)]
           /\ outreach' = outreach \o b.rows
           /\ gemini_calls' = gemini_calls + b.used
  /\ UNCHANGED <<audit, result, args, ret, compensated, earlier, callVars,
                 leads, audits, generated, run, sendVars, gemVars>>

NextBatch == GenerateBatch

\* the runs are repeated for ever
SpecBatch == InitBatch /\ [][NextBatch]_vars /\ WF_vars(GenerateBatch)

\* the lead has an audit whose priority is not SKIP and no outreach row
Waiting(l) ==
  /\ l \in DOMAIN audits
  /\ \A i \in DOMAIN outreach : outreach[i].lead_id # l
  /\ score(_build_audit_dict(audits[l]), compensated).priority # "SKIP"

\* C29: under repeated generate_batch(lead_ids=None, limit=N) runs that
\* succeed, every lead with an audit, no outreach row and a priority other
\* than SKIP eventually has an outreach row.  Nothing but these runs
\* changes the database and the leads a run takes depend on the database
\* alone, so a run that inserts no row is repeated unchanged by every later
\* run: the waiting leads all get their row if and only if no run that
\* inserted nothing leaves a lead waiting
C29_NoStarvation ==
  (batch # NotScored /\ batch.ran /\ batch.inserted = 0) =>
    \A l \in DOMAIN leads : ~Waiting(l)

====
